---- MODULE Spec2Model ----
(***************************************************************************)
(* Authorization / session subsystem of ai4edu-api-service.                *)
(*                                                                         *)
(*   common/UserAuth.py          user_login, gen_refresh_token,            *)
(*                               gen_access_token, user_logout_all_devices *)
(*   utils/token_utils.py        jwt_generator, parse_token                *)
(*   common/JWTValidator.py      parse_jwt, get_jwt, default_jwt           *)
(*   middleware/authorization.py extract_token, extract_role, has_access,  *)
(*                               extract_actual_path, dispatch             *)
(*   admin/Workspace.py          create_workspace, set_workspace_status,   *)
(*                               remove_workspace_roles,                   *)
(*                               restore_workspace_roles,                  *)
(*                               delete_workspace, add_users_via_csv,      *)
(*                               add_users_json, student_join_workspace,   *)
(*                               delete_user_from_workspace,               *)
(*                               set_user_role_with_user_id,               *)
(*                               set_workspace_admin_role                  *)
(*   admin/AgentManager.py       create_agent, delete_agent, edit_agent    *)
(*   main.py                     generate_token                            *)
(*                                                                         *)
(* Time is counted in ticks, TicksPerSec ticks to the second, so that a    *)
(* datetime (sub-second resolution) and a JWT NumericDate (whole seconds)  *)
(* are different things.  Every datetime.now() of the code is a separate   *)
(* clock reading; the clock never goes back.                               *)
(*                                                                         *)
(* Handlers run concurrently.  A handler that loads rows, changes them and *)
(* commits later is two actions, <handler>_query and <handler>_commit,     *)
(* with what it has loaded kept in calls[id] in between                    *)
(* (gen_access_token, user_logout_all_devices, create_workspace,           *)
(* restore_workspace_roles, delete_agent, edit_agent).                     *)
(***************************************************************************)
EXTENDS Integers, Sequences, FiniteSets, TLC

(* ------------------------------ bounds --------------------------------- *)
TicksPerSec == 1
MaxHandlerDelay == 1
MaxRefresh == 2
MaxIssued == 1

(* ------------------------- program constants --------------------------- *)
SessionTTLMinutes == 30
RefreshTTLDays == 15

SessionTTL == SessionTTLMinutes * 60 * TicksPerSec
RefreshTTL == RefreshTTLDays * 24 * 60 * 60 * TicksPerSec

(* --------------------------- input domains ----------------------------- *)
Emails == {"a@x.edu", "b@x.edu"}
Workspaces == {"w1", "w2"}
RoleNames == {"student", "teacher", "pending"}

\* The clock readings the model explores: every tick of the first second after
\* the start, after the time to live of a session token and after the time to
\* live of a refresh credential, and there as many ticks more as a handler
\* can let pass between two readings (so that a credential can expire between
\* two readings of one handler).
Epochs == {0, SessionTTL, RefreshTTL}
ClockReadings ==
    {e + o : e \in Epochs, o \in 0..TicksPerSec}
        \cup {RefreshTTL + TicksPerSec + d : d \in 1..MaxHandlerDelay}

\* The readings a handler can get from a datetime.now() executed when the
\* previous reading was t.
Later(t) == {s \in ClockReadings : s >= t /\ s <= t + MaxHandlerDelay}

VARIABLES
    now,             \* the wall clock, in ticks
    users,           \* table ai_users: sequence of rows, user_id = index
    refresh_tokens,  \* table ai_refresh_tokens: sequence of rows
    user_workspace,  \* table ai_user_workspace: set of [user_id, student_id, workspace_id, role]
    workspaces,      \* table ai_workspaces: set of [workspace_id, created_by, status]
    result,          \* the last call of an operation and what it returned
    probe,           \* the last application of a pure function: input and output
    issued_identity, \* history: the identity of the owner when each credential was issued
    revoked,         \* history: credentials stored when a successful logout of their owner ran its query
    calls            \* the handler calls between their first query and their commit

vars == <<now, users, refresh_tokens, user_workspace, workspaces, result, probe,
          issued_identity, revoked, calls>>


(* ----------------------------- conversions ----------------------------- *)
\* str(user_id): the decimal digits of a positive integer, most significant first.
RECURSIVE IntToStr(_)
IntToStr(n) == IF n < 10 THEN <<n>> ELSE Append(IntToStr(n \div 10), n % 10)

\* int(s) of a string of decimal digits.
RECURSIVE StrToInt(_)
StrToInt(s) ==
    IF Len(s) = 0 THEN 0
    ELSE 10 * StrToInt(SubSeq(s, 1, Len(s) - 1)) + s[Len(s)]

\* PyJWT writes a datetime claim as timegm(utctimetuple()): whole seconds,
\* the sub-second part dropped.
NumericDate(t) == t \div TicksPerSec

(* ------------------------------ tokens --------------------------------- *)
\* A string handed to parse_token is the empty string, a string that is not a
\* JWT, or a JWT: the algorithm of its header, its signature, and its payload,
\* the JSON text of the claims.
NoPayload == [none |-> TRUE]
EmptyString == [kind |-> "empty", alg |-> "-", sig |-> "-", payload |-> NoPayload]
Garbage == [kind |-> "garbage", alg |-> "-", sig |-> "-", payload |-> NoPayload]

\* The claims PyJWT takes for times: a datetime under one of them is written
\* as its NumericDate.
TimeClaims == {"exp", "iat", "nbf"}

\* The items <<key, value>> of a mapping, in some order (a JSON object is
\* written member by member).
RECURSIVE Items(_)
Items(d) ==
    IF DOMAIN d = {} THEN << >>
    ELSE LET k == CHOOSE key \in DOMAIN d : TRUE
         IN  <<<<k, d[k]>>>> \o Items([key \in DOMAIN d \ {k} |-> d[key]])

\* The mapping a sequence of items <<key, value>> stands for; of the items
\* with one key the last one counts.
Dict(items) ==
    [k \in {items[i][1] : i \in DOMAIN items} |->
        items[CHOOSE i \in DOMAIN items :
                /\ items[i][1] = k
                /\ \A j \in DOMAIN items : items[j][1] = k => j <= i][2]]

\* What is written for the value of a claim: the NumericDate of a time, the
\* members of the workspace_role mapping, the value itself of a string or a
\* boolean.
JsonValue(key, value) ==
    IF key \in TimeClaims THEN NumericDate(value)
    ELSE IF key = "workspace_role" THEN Items(value)
    ELSE value

\* What json.loads makes of the value of a claim: a dict of an object.
PyValue(key, json) ==
    IF key = "workspace_role" THEN Dict(json) ELSE json

\* jwt.encode(payload, private_key, algorithm="RS256"); payload is the dict
\* as the sequence of its items in insertion order.
JwtEncode(payload) ==
    [kind |-> "jwt", alg |-> "RS256", sig |-> "valid",
     payload |-> [i \in DOMAIN payload |->
                    <<payload[i][1], JsonValue(payload[i][1], payload[i][2])>>]]

\* json.loads of the payload of a token: the dict of the claims.
JsonLoads(json) ==
    Dict([i \in DOMAIN json |-> <<json[i][1], PyValue(json[i][1], json[i][2])>>])

\* (mutant) first_name and last_name land in each other's claim
jwt_generator_swapped(user_id, first_name, last_name, student_id, workspace_role, system_admin, email, t1, t2) ==
    JwtEncode(<<<<"user_id", user_id>>,
                <<"email", email>>,
                <<"first_name", last_name>>,
                <<"last_name", first_name>>,
                <<"student_id", student_id>>,
                <<"workspace_role", workspace_role>>,
                <<"system_admin", system_admin>>,
                <<"iat", t1>>,
                <<"exp", t2 + SessionTTL>>>>)

\* t1 and t2 are the two clock readings, of "iat" and of "exp".
jwt_generator(user_id, first_name, last_name, student_id, workspace_role, system_admin, email, t1, t2) ==
    JwtEncode(<<<<"user_id", user_id>>,
                <<"email", email>>,
                <<"first_name", first_name>>,
                <<"last_name", last_name>>,
                <<"student_id", student_id>>,
                <<"workspace_role", workspace_role>>,
                <<"system_admin", system_admin>>,
                <<"iat", t1>>,
                <<"exp", t2 + SessionTTL>>>>)

\* The exception classes of PyJWT and their base class.
ExcParent ==
    [ExpiredSignatureError |-> "InvalidTokenError",
     ImmatureSignatureError |-> "InvalidTokenError",
     InvalidAlgorithmError |-> "InvalidTokenError",
     DecodeError |-> "InvalidTokenError",
     InvalidSignatureError |-> "DecodeError",
     InvalidTokenError |-> "PyJWTError",
     InvalidKeyError |-> "PyJWTError",
     PyJWTError |-> "Exception",
     Exception |-> "Exception"]

RECURSIVE IsInstance(_, _)
IsInstance(exc, cls) ==
    IF exc = cls THEN TRUE
    ELSE IF exc = "Exception" THEN FALSE
    ELSE IsInstance(ExcParent[exc], cls)

\* (mutant) a token is still accepted at the instant of its exp
jwt_decode_exclusive(token, t) ==
    IF token.kind # "jwt" THEN [exc |-> "DecodeError", data |-> NoPayload]
    ELSE IF token.alg # "RS256"
        THEN [exc |-> "InvalidAlgorithmError", data |-> NoPayload]
    ELSE IF token.sig # "valid"
        THEN [exc |-> "InvalidSignatureError", data |-> NoPayload]
    ELSE IF JsonLoads(token.payload).iat * TicksPerSec > t
        THEN [exc |-> "ImmatureSignatureError", data |-> NoPayload]
    ELSE IF JsonLoads(token.payload).exp * TicksPerSec < t
        THEN [exc |-> "ExpiredSignatureError", data |-> NoPayload]
    ELSE [exc |-> "none", data |-> JsonLoads(token.payload)]

\* jwt.decode(jwt_token, public_key, algorithms=["RS256"]) at clock reading t:
\* the exception it raises ("none" when it returns) and the claims it has
\* loaded from the payload.
jwt_decode(token, t) ==
    IF token.kind # "jwt" THEN [exc |-> "DecodeError", data |-> NoPayload]
    ELSE IF token.alg # "RS256"
        THEN [exc |-> "InvalidAlgorithmError", data |-> NoPayload]
    ELSE IF token.sig # "valid"
        THEN [exc |-> "InvalidSignatureError", data |-> NoPayload]
    ELSE IF JsonLoads(token.payload).iat * TicksPerSec > t
        THEN [exc |-> "ImmatureSignatureError", data |-> NoPayload]
    ELSE IF JsonLoads(token.payload).exp * TicksPerSec <= t
        THEN [exc |-> "ExpiredSignatureError", data |-> NoPayload]
    ELSE [exc |-> "none", data |-> JsonLoads(token.payload)]

ParseOut(raised, success, status_code, message, data) ==
    [raised |-> raised, success |-> success, status_code |-> status_code,
     message |-> message, data |-> data]

\* (mutant) the second handler catches jwt.DecodeError only
parse_token_decode_error_only(jwt_token, t) ==
    IF jwt_token.kind = "empty"
        THEN ParseOut(FALSE, FALSE, 401000, "Token missing", NoPayload)
    ELSE LET d == jwt_decode(jwt_token, t) IN
        IF d.exc = "none"
            THEN ParseOut(FALSE, TRUE, 200, "", d.data)
        ELSE IF IsInstance(d.exc, "ExpiredSignatureError")
            THEN ParseOut(FALSE, FALSE, 401001, "Token has expired", NoPayload)
        ELSE IF IsInstance(d.exc, "DecodeError")
            THEN ParseOut(FALSE, FALSE, 401002, "Invalid token", NoPayload)
        ELSE ParseOut(TRUE, FALSE, 0, d.exc, NoPayload)

\* parse_token at clock reading t.
parse_token(jwt_token, t) ==
    IF jwt_token.kind = "empty"
        THEN ParseOut(FALSE, FALSE, 401000, "Token missing", NoPayload)
    ELSE LET d == jwt_decode(jwt_token, t) IN
        IF d.exc = "none"
            THEN ParseOut(FALSE, TRUE, 200, "", d.data)
        ELSE IF IsInstance(d.exc, "ExpiredSignatureError")
            THEN ParseOut(FALSE, FALSE, 401001, "Token has expired", NoPayload)
        ELSE IF IsInstance(d.exc, "InvalidTokenError")
            THEN ParseOut(FALSE, FALSE, 401002, "Invalid token", NoPayload)
        ELSE ParseOut(TRUE, FALSE, 0, d.exc, NoPayload)

(* --------------------------- the stores (Init) -------------------------- *)
\* What the SSO provider reports for each e-mail address (AuthSSO hands
\* student_id and user_info to user_login).
SsoDirectory ==
    [e \in Emails |->
        IF e = "a@x.edu"
        THEN [givenName |-> "Ada", sn |-> "A", student_id |-> "axa1"]
        ELSE [givenName |-> "Bob", sn |-> "B", student_id |-> "bxb2"]]

UserIds == 1..Cardinality(Emails)

\* The record of a call: the operation, whether it returned success, the user
\* and the argument it was about, and the session token it returned (if any).
\* flip alternates with every call, so that two calls are never the same step.
Call(op, ok, uid, arg, token) ==
    [op |-> op, flip |-> 1 - result.flip, ok |-> ok, uid |-> uid, arg |-> arg,
     token |-> token]

NoProbe == [fn |-> "none"]

\* The handlers run in a thread pool, each call with a database session of its
\* own: between the queries of a call and its commit other calls query and
\* commit.  calls[id] is what the call id has loaded so far, IdleCall when id
\* is running no handler.
CallIds == {"c1", "c2"}

IdleCall == [pc |-> "idle"]

Init ==
    /\ now = 0
    /\ users = << >>
    /\ refresh_tokens = << >>
    /\ user_workspace = {}
    /\ workspaces = {}
    /\ result = [op |-> "none", flip |-> 0, ok |-> FALSE, uid |-> 0, arg |-> 0,
                 token |-> EmptyString]
    /\ probe = NoProbe
    /\ issued_identity = << >>
    /\ revoked = {}
    /\ calls = [id \in CallIds |-> IdleCall]

(* ------------------------------ the clock ------------------------------ *)
\* Time passes, up to a reading of one of the given epochs.
Tick(epochs) ==
    /\ \E e \in epochs : \E o \in 0..TicksPerSec : e + o > now /\ now' = e + o
    /\ UNCHANGED <<users, refresh_tokens, user_workspace, workspaces, result, probe,
                   issued_identity, revoked, calls>>

(* ------------------------- common/UserAuth.py -------------------------- *)
\* Query.first(): of the indices of the rows that satisfy the filter the first
\* one, 0 (None) when there is none.
First(matching) ==
    IF matching = {} THEN 0
    ELSE CHOOSE i \in matching : \A j \in matching : i <= j

\* db_ok = FALSE: the commit (or a statement before it) raises and the handler
\* rolls back.  The columns last_login and create_at, which the handler sets
\* from the clock and which no operation reads, are not part of the rows.
user_login(email, db_ok) ==
    LET user_db == First({i \in 1..Len(users) : users[i].email = email})
        info == SsoDirectory[email]
    IN  /\ \E t1 \in Later(now) : \E t2 \in Later(t1) :
            now' = IF user_db # 0 THEN t1 ELSE t2
        /\ IF ~db_ok
           THEN /\ users' = users
                /\ result' = Call("user_login", FALSE, 0, email, EmptyString)
           ELSE IF user_db # 0
           THEN /\ users' = users
                /\ result' = Call("user_login", TRUE, user_db, email, EmptyString)
           ELSE /\ users' = Append(users,
                        [email |-> email,
                         first_name |-> info.givenName,
                         last_name |-> info.sn,
                         student_id |-> info.student_id,
                         workspace_role |-> << >>,
                         system_admin |-> FALSE,
                         workspace_admin |-> FALSE])
                /\ result' = Call("user_login", TRUE, Len(users) + 1, email,
                                  EmptyString)
        /\ UNCHANGED <<refresh_tokens, user_workspace, workspaces, probe,
                       issued_identity, revoked, calls>>

\* The identity of a user that gen_access_token reads for the claims.
Identity(user_id) ==
    [workspace_role |-> users[user_id].workspace_role,
     system_admin |-> users[user_id].system_admin]

\* uuid.uuid4() is modelled as a value never used before: the number of the row.
\* The foreign key on user_id makes the commit fail for an unknown user.  t1 is
\* the clock reading of expire_at (UserAuth.py:84), t2 the one of created_at
\* (UserAuth.py:91).
gen_refresh_token(user_id, db_ok) ==
    /\ Len(refresh_tokens) < MaxRefresh
    /\ \E t1 \in Later(now) : \E t2 \in Later(t1) :
        /\ now' = t2
        /\ IF db_ok /\ user_id \in 1..Len(users)
           THEN /\ refresh_tokens' = Append(refresh_tokens,
                        [token |-> Len(refresh_tokens) + 1,
                         user_id |-> user_id,
                         created_at |-> t2,
                         expire_at |-> t1 + RefreshTTL,
                         issued_token_count |-> 0])
                /\ issued_identity' = Append(issued_identity,
                        [workspace_role |-> users[user_id].workspace_role,
                         system_admin |-> users[user_id].system_admin,
                         workspace_admin |-> users[user_id].workspace_admin])
                /\ result' = Call("gen_refresh_token", TRUE, user_id,
                                  Len(refresh_tokens) + 1, EmptyString)
           ELSE /\ UNCHANGED <<refresh_tokens, issued_identity>>
                /\ result' = Call("gen_refresh_token", FALSE, user_id, 0, EmptyString)
    /\ UNCHANGED <<users, user_workspace, workspaces, probe, revoked, calls>>

\* The user whose identity goes into the claims of a token redeemed from row.
ClaimsOwner(row) == row.user_id

\* a > b of two datetimes, each with a time zone (aware) or without (naive):
\* Python orders two naive and two aware datetimes and raises TypeError when
\* one is naive and the other aware.
DatetimeGt(a, a_aware, b, b_aware) ==
    IF a_aware # b_aware THEN "TypeError"
    ELSE IF a > b THEN "True"
    ELSE "False"

\* (mutant) the test of expire_at is gone: a row that is found is enough
CredentialValidUntested(row, t0) == "True"

\* (mutant) the clock is read without a time zone and the test is >=: a
\* credential is still accepted at the instant it expires
CredentialValidInclusive(row, t0) ==
    IF row.expire_at >= t0 THEN "True" ELSE "False"

\* (mutant) the clock is read without a time zone, as the column is stored:
\* the two datetimes can be ordered
CredentialValidNaiveNow(row, t0) == DatetimeGt(row.expire_at, FALSE, t0, FALSE)

\* refresh_token_obj.expire_at > datetime.now(tz=ZoneInfo(...)), the clock
\* reading being t0: expire_at is the value of a Column(DateTime), which the
\* database gives back without a time zone, and the reading has one.
CredentialValid(row, t0) == DatetimeGt(row.expire_at, FALSE, t0, TRUE)

\* (history) The last handler that returned is a successful logout of the user.
LoggedOut(user_id) ==
    /\ result.op = "user_logout_all_devices"
    /\ result.ok
    /\ result.uid = user_id

\* (history) Another call of gen_access_token holds a row loaded for the
\* value the call id holds one for.
Overlapped(id) ==
    \E other \in CallIds \ {id} :
        /\ calls[other].pc = "gen_access_token"
        /\ calls[other].refresh_token = calls[id].refresh_token

\* The record of a call of gen_access_token: as Call, and (history) whether
\* the handler that returned last before it was a successful logout of the
\* owner of the credential, whether another call for the same value was in
\* flight when it returned, and the expire_at of the row it had loaded.
RedeemCall(ok, uid, arg, token, logged_out, overlapped, loaded_expire_at) ==
    [op |-> "gen_access_token", flip |-> 1 - result.flip, ok |-> ok, uid |-> uid,
     arg |-> arg, token |-> token, logged_out |-> logged_out,
     overlapped |-> overlapped, loaded_expire_at |-> loaded_expire_at]

\* gen_access_token, the query of the credential (UserAuth.py:117-121): a row
\* that is found stays loaded in the session of the call (refresh_token_obj);
\* when there is none the test at :122 is False without a clock reading and
\* the call returns False (:155-156).
gen_access_token_query(id, refresh_token) ==
    LET obj == First({i \in 1..Len(refresh_tokens) :
                        refresh_tokens[i].token = refresh_token})
    IN  /\ calls[id] = IdleCall
        /\ IF obj # 0
           THEN /\ refresh_tokens[obj].issued_token_count < MaxIssued
                /\ calls' = [calls EXCEPT ![id] =
                        [pc |-> "gen_access_token", refresh_token |-> refresh_token,
                         obj |-> obj, refresh_token_obj |-> refresh_tokens[obj]]]
                /\ UNCHANGED result
           ELSE /\ result' = RedeemCall(FALSE, 0, refresh_token, EmptyString, FALSE,
                                        FALSE, 0)
                /\ UNCHANGED calls
        /\ UNCHANGED <<now, users, refresh_tokens, user_workspace, workspaces, probe,
                       issued_identity, revoked>>

\* The rest of gen_access_token for a row that was found.  The test of its
\* expire_at against the clock reading t0 (UserAuth.py:122-124): when the
\* comparison raises, the outer handler rolls back and returns False
\* (:157-160); when it is false, the call returns False (:155-156).  When it
\* is true (:125-154): the query of the user, jwt_generator with its two
\* clock readings, issued_token_count += 1 on the object the first query
\* loaded (the UPDATE writes the count the call has read plus one) and the
\* commit; False and a rollback when the commit raises.
gen_access_token_commit(id, db_ok) ==
    LET call == calls[id]
        user_id == ClaimsOwner(call.refresh_token_obj)
    IN  /\ call.pc = "gen_access_token"
        /\ \E t0 \in Later(now) :
            IF CredentialValid(call.refresh_token_obj, t0) = "True"
            THEN \E t1 \in Later(t0) : \E t2 \in Later(t1) :
                    LET user == users[user_id]
                        token == jwt_generator(IntToStr(user_id), user.first_name,
                                     user.last_name, user.student_id,
                                     Identity(user_id).workspace_role,
                                     Identity(user_id).system_admin, user.email,
                                     t1, t2)
                    IN  /\ now' = t2
                        /\ IF db_ok
                           THEN /\ refresh_tokens' =
                                     [refresh_tokens EXCEPT
                                        ![call.obj].issued_token_count =
                                            call.refresh_token_obj.issued_token_count + 1]
                                /\ result' = RedeemCall(TRUE, user_id,
                                                call.refresh_token, token,
                                                LoggedOut(user_id), Overlapped(id),
                                                call.refresh_token_obj.expire_at)
                           ELSE /\ UNCHANGED refresh_tokens
                                /\ result' = RedeemCall(FALSE, user_id,
                                                call.refresh_token, EmptyString,
                                                LoggedOut(user_id), Overlapped(id),
                                                call.refresh_token_obj.expire_at)
            ELSE /\ now' = t0
                 /\ UNCHANGED refresh_tokens
                 /\ result' = RedeemCall(FALSE, user_id, call.refresh_token,
                                         EmptyString, LoggedOut(user_id),
                                         Overlapped(id),
                                         call.refresh_token_obj.expire_at)
        /\ calls' = [calls EXCEPT ![id] = IdleCall]
        /\ UNCHANGED <<users, user_workspace, workspaces, probe, issued_identity,
                       revoked>>

\* The rows the logout query selects at clock reading t0.
LogoutSelected(user_id, t0) ==
    {i \in 1..Len(refresh_tokens) :
        /\ refresh_tokens[i].user_id = user_id
        /\ refresh_tokens[i].expire_at > t0}

\* (mutant) the query has lost its filter on expire_at: every credential of
\* the user is selected and stamped again
user_logout_all_devices_query_restamp(id, user_id, db_ok) ==
    /\ calls[id] = IdleCall
    /\ \E t0 \in Later(now) :
        /\ now' = t0
        /\ IF db_ok
           THEN /\ calls' = [calls EXCEPT ![id] =
                        [pc |-> "user_logout_all_devices", user_id |-> user_id,
                         tokens |-> {i \in 1..Len(refresh_tokens) :
                                        refresh_tokens[i].user_id = user_id},
                         seen |-> Len(refresh_tokens)]]
                /\ UNCHANGED result
           ELSE /\ result' = Call("user_logout_all_devices", FALSE, user_id,
                                  user_id, EmptyString)
                /\ UNCHANGED calls
    /\ UNCHANGED <<users, refresh_tokens, user_workspace, workspaces, probe,
                   issued_identity, revoked>>

\* user_logout_all_devices, the query (UserAuth.py:175-183): the unexpired
\* rows of the user at clock reading t0 are loaded into the session of the
\* call (tokens); seen is the number of rows the table had at the query.  A
\* query that raises makes the call roll back and return False.
user_logout_all_devices_query(id, user_id, db_ok) ==
    /\ calls[id] = IdleCall
    /\ \E t0 \in Later(now) :
        /\ now' = t0
        /\ IF db_ok
           THEN /\ calls' = [calls EXCEPT ![id] =
                        [pc |-> "user_logout_all_devices", user_id |-> user_id,
                         tokens |-> LogoutSelected(user_id, t0),
                         seen |-> Len(refresh_tokens)]]
                /\ UNCHANGED result
           ELSE /\ result' = Call("user_logout_all_devices", FALSE, user_id,
                                  user_id, EmptyString)
                /\ UNCHANGED calls
    /\ UNCHANGED <<users, refresh_tokens, user_workspace, workspaces, probe,
                   issued_identity, revoked>>

\* user_logout_all_devices, the loop and the commit (UserAuth.py:184-187): the
\* loop reads the clock once per loaded row (the rows in early get reading t1,
\* the others the later reading t2) and the commit writes the expire_at of
\* the loaded rows; rows other calls have added since the query are not among
\* them.  revoked gets the credentials of the user that were stored when the
\* call ran its query.
user_logout_all_devices_commit(id, db_ok) ==
    LET call == calls[id] IN
    /\ call.pc = "user_logout_all_devices"
    /\ \E t1 \in Later(now) : \E t2 \in Later(t1) : \E early \in SUBSET call.tokens :
        /\ call.tokens = {} => (t1 = now /\ t2 = now)
        /\ early = {} => t1 = now
        /\ early = call.tokens => t2 = t1
        /\ now' = t2
        /\ IF db_ok
           THEN /\ refresh_tokens' =
                    [i \in 1..Len(refresh_tokens) |->
                        IF i \in early
                        THEN [refresh_tokens[i] EXCEPT !.expire_at = t1]
                        ELSE IF i \in call.tokens
                        THEN [refresh_tokens[i] EXCEPT !.expire_at = t2]
                        ELSE refresh_tokens[i]]
                /\ revoked' = revoked \cup
                    {refresh_tokens[i].token : i \in
                        {j \in 1..call.seen :
                            refresh_tokens[j].user_id = call.user_id}}
                /\ result' = Call("user_logout_all_devices", TRUE, call.user_id,
                                  call.user_id, EmptyString)
           ELSE /\ UNCHANGED <<refresh_tokens, revoked>>
                /\ result' = Call("user_logout_all_devices", FALSE, call.user_id,
                                  call.user_id, EmptyString)
    /\ calls' = [calls EXCEPT ![id] = IdleCall]
    /\ UNCHANGED <<users, user_workspace, workspaces, probe, issued_identity>>

(* ------------------------- admin/Workspace.py -------------------------- *)
\* What a handler gets from get_jwt(request.state) about its caller.
CallerClaims == [system_admin : BOOLEAN, workspace_admin : BOOLEAN]

\* the claims a handler reads from get_jwt: the flags and the role mapping
MemberCallers ==
    {[system_admin |-> TRUE, workspace_admin |-> FALSE, workspace_role |-> << >>],
     [system_admin |-> FALSE, workspace_admin |-> TRUE, workspace_role |-> << >>],
     [system_admin |-> FALSE, workspace_admin |-> FALSE,
      workspace_role |-> [k \in {"w1"} |-> "teacher"]]}

\* the claims of a system admin who is in no workspace
SystemAdmin ==
    [system_admin |-> TRUE, workspace_admin |-> FALSE, workspace_role |-> << >>]

\* WorkspaceStatus (models.py:533-538)
ACTIVE == 1
INACTIVE == 0
DELETED == 2

\* The request models of the membership handlers declare workspace_id as a
\* UUID (Workspace.py:49-91), create_workspace writes str(uuid.uuid1()).  The
\* workspace_role mapping is a JSON column: its stored keys are strings, and
\* json.dumps accepts these key types only.
JsonKeyTypes == {"str", "int", "float", "bool", "NoneType"}

json_dumps_ok(key_type) == key_type \in JsonKeyTypes

\* key in d, for a mapping loaded from the JSON column (string keys)
DictHasKey(d, key_type, key) == key_type = "str" /\ key \in DOMAIN d

\* dict[key] = value on a JSON mapping.
DictSet(d, key, value) ==
    [k \in DOMAIN d \cup {key} |-> IF k = key THEN value ELSE d[k]]

MemberRoles == {"student", "teacher", "pending"}

\* the membership row of a user in a workspace, as a set of at most one row
MembershipRows(user_id, workspace_id) ==
    {row \in user_workspace : row.user_id = user_id /\ row.workspace_id = workspace_id}

\* create_workspace up to the query of the user (Workspace.py:136-186): the
\* caller must be an admin, str(uuid.uuid1()) is an identifier no call has had
\* before, and the user named in the request is loaded into the session of the
\* call (with the workspace_role mapping the row has now).  db_ok = FALSE: a
\* query raises.
create_workspace_query(id, caller, user_id, db_ok) ==
    LET used == {row.workspace_id : row \in workspaces}
                    \cup {calls[c].new_workspace_id :
                            c \in {d \in CallIds : calls[d].pc = "create_workspace"}}
    IN  /\ calls[id] = IdleCall
        /\ Workspaces \ used # {}
        /\ IF ~caller.system_admin /\ ~caller.workspace_admin
           THEN /\ result' = Call("create_workspace", FALSE, user_id, 403, EmptyString)
                /\ UNCHANGED calls
           ELSE IF ~db_ok
           THEN /\ result' = Call("create_workspace", FALSE, user_id, 500, EmptyString)
                /\ UNCHANGED calls
           ELSE IF user_id \notin 1..Len(users)
           THEN /\ result' = Call("create_workspace", FALSE, user_id, 404, EmptyString)
                /\ UNCHANGED calls
           ELSE /\ calls' = [calls EXCEPT ![id] =
                        [pc |-> "create_workspace",
                         new_workspace_id |-> CHOOSE w \in Workspaces : w \notin used,
                         user_id |-> user_id,
                         user |-> users[user_id]]]
                /\ UNCHANGED result
        /\ UNCHANGED <<now, users, refresh_tokens, user_workspace, workspaces, probe,
                       issued_identity, revoked>>

\* The outcomes of the commit of create_workspace: it goes through, the join
\* code violates unique(workspace_join_code) (another call committed the same
\* code after the check of lines 151-161), or another error.
CommitOutcomes == {"ok", "IntegrityError", "Exception"}

\* The rest of create_workspace (Workspace.py:188-227): the user becomes
\* teacher of the new workspace, in the membership table and in the
\* workspace_role mapping, in one commit.  The mapping written is the one the
\* call has loaded, with the new key (flag_modified: the UPDATE writes the
\* whole JSON value).
create_workspace_commit(id, db) ==
    LET call == calls[id] IN
    /\ call.pc = "create_workspace"
    /\ IF db = "ok"
       THEN /\ workspaces' = workspaces \cup
                    {[workspace_id |-> call.new_workspace_id,
                      created_by |-> call.user_id, status |-> ACTIVE]}
            /\ user_workspace' = user_workspace \cup
                    {[user_id |-> call.user_id, workspace_id |-> call.new_workspace_id,
                      role |-> "teacher", student_id |-> call.user.student_id]}
            /\ users' = [users EXCEPT ![call.user_id].workspace_role =
                            DictSet(call.user.workspace_role, call.new_workspace_id,
                                    "teacher")]
            /\ result' = Call("create_workspace", TRUE, call.user_id, 200, EmptyString)
       ELSE /\ result' = Call("create_workspace", FALSE, call.user_id,
                              IF db = "IntegrityError" THEN 400 ELSE 500, EmptyString)
            /\ UNCHANGED <<users, user_workspace, workspaces>>
    /\ calls' = [calls EXCEPT ![id] = IdleCall]
    /\ UNCHANGED <<now, refresh_tokens, probe, issued_identity, revoked>>

\* set_workspace_status: the caller's role is looked up under the UUID key of
\* the request (never found, so only a system admin passes); the status is
\* written and committed, and the task that brings the workspace_role mappings
\* in line is left to run after the response: remove_workspace_roles for
\* INACTIVE, restore_workspace_roles for every other status.
set_workspace_status(id, caller, workspace_id, workspace_status, db_ok) ==
    LET caller_role == IF DictHasKey(caller.workspace_role, "UUID", workspace_id)
                       THEN caller.workspace_role[workspace_id] ELSE "None"
        found == {row \in workspaces : row.workspace_id = workspace_id}
    IN  /\ calls[id] = IdleCall
        /\ IF ~caller.system_admin /\ caller_role # "teacher"
           THEN /\ result' = Call("set_workspace_status", FALSE, 0, 403, EmptyString)
                /\ UNCHANGED <<workspaces, calls>>
           ELSE IF found = {}
           THEN /\ result' = Call("set_workspace_status", FALSE, 0,
                                  IF db_ok THEN 404 ELSE 500, EmptyString)
                /\ UNCHANGED <<workspaces, calls>>
           ELSE IF ~db_ok
           THEN /\ result' = Call("set_workspace_status", FALSE, 0, 500, EmptyString)
                /\ UNCHANGED <<workspaces, calls>>
           ELSE /\ workspaces' = (workspaces \ found) \cup
                        {[row EXCEPT !.status = workspace_status] : row \in found}
                /\ calls' = [calls EXCEPT ![id] =
                        [pc |-> IF workspace_status = INACTIVE
                                THEN "remove_workspace_roles"
                                ELSE "restore_workspace_roles",
                         workspace_id |-> workspace_id]]
                /\ result' = Call("set_workspace_status", TRUE, 0, 200, EmptyString)
        /\ UNCHANGED <<now, users, refresh_tokens, user_workspace, probe,
                       issued_identity, revoked>>

\* remove_workspace_roles: the workspace_id of the request is a UUID, the keys
\* of the mappings are strings: json_extract_path_text finds no user, or del
\* raises KeyError on the first user found; the task rolls back and changes
\* nothing.
remove_workspace_roles(id) ==
    /\ calls[id].pc = "remove_workspace_roles"
    /\ calls' = [calls EXCEPT ![id] = IdleCall]
    /\ UNCHANGED <<now, users, refresh_tokens, user_workspace, workspaces, result,
                   probe, issued_identity, revoked>>

\* restore_workspace_roles, the queries (Workspace.py:365-376): the membership
\* rows of the workspace and, for each of them, the user; db_ok = FALSE: a
\* query raises and the task ends.
restore_workspace_roles_query(id, db_ok) ==
    LET call == calls[id]
        rows == {row \in user_workspace :
                    row.workspace_id = call.workspace_id
                        /\ row.user_id \in 1..Len(users)}
    IN  /\ call.pc = "restore_workspace_roles"
        /\ calls' = [calls EXCEPT ![id] =
                IF db_ok
                THEN [pc |-> "restore_workspace_roles_commit",
                      workspace_id |-> call.workspace_id,
                      loaded |-> {[user_id |-> row.user_id, role |-> row.role,
                                   workspace_role |-> users[row.user_id].workspace_role] :
                                    row \in rows}]
                ELSE IdleCall]
        /\ UNCHANGED <<now, users, refresh_tokens, user_workspace, workspaces, result,
                       probe, issued_identity, revoked>>

\* restore_workspace_roles, the writes and the commit (378-388): every user
\* loaded gets the role of the membership row under str(workspace_id), on the
\* mapping the task has loaded.
restore_workspace_roles_commit(id, db_ok) ==
    LET call == calls[id] IN
    /\ call.pc = "restore_workspace_roles_commit"
    /\ users' = IF db_ok
                THEN [u \in 1..Len(users) |->
                        IF \E l \in call.loaded : l.user_id = u
                        THEN LET l == CHOOSE l \in call.loaded : l.user_id = u
                             IN  [users[u] EXCEPT !.workspace_role =
                                    DictSet(l.workspace_role, call.workspace_id, l.role)]
                        ELSE users[u]]
                ELSE users
    /\ calls' = [calls EXCEPT ![id] = IdleCall]
    /\ UNCHANGED <<now, refresh_tokens, user_workspace, workspaces, result, probe,
                   issued_identity, revoked>>

\* delete_workspace: a system admin marks the workspace DELETED; .one() on a
\* workspace that does not exist raises NoResultFound.
delete_workspace(caller, workspace, db_ok) ==
    LET found == {row \in workspaces : row.workspace_id = workspace}
    IN  /\ IF ~caller.system_admin
           THEN /\ result' = Call("delete_workspace", FALSE, 0, 403, EmptyString)
                /\ UNCHANGED workspaces
           ELSE IF ~db_ok
           THEN /\ result' = Call("delete_workspace", FALSE, 0, 500, EmptyString)
                /\ UNCHANGED workspaces
           ELSE IF found = {}
           THEN /\ result' = Call("delete_workspace", FALSE, 0, 400, EmptyString)
                /\ UNCHANGED workspaces
           ELSE /\ workspaces' = (workspaces \ found) \cup
                        {[row EXCEPT !.status = DELETED] : row \in found}
                /\ result' = Call("delete_workspace", TRUE, 0, 200, EmptyString)
        /\ UNCHANGED <<now, users, refresh_tokens, user_workspace, probe,
                       issued_identity, revoked, calls>>

\* The student ids a roster can name.
StudentIds == {"axa1", "cxc3"}

\* add_users_json: a teacher of the workspace or a system admin enrols the
\* students of the list as pending.  The rows are added without a user_id,
\* which is part of the primary key of ai_user_workspace (models.py:617-619):
\* the commit of a new row raises and the handler rolls back.
add_users_json(caller, workspace_id, students, db_ok) ==
    LET user_workspace_role == IF DictHasKey(caller.workspace_role, "str", workspace_id)
                               THEN caller.workspace_role[workspace_id] ELSE "None"
        new == {student \in students :
                    ~\E row \in user_workspace :
                        row.workspace_id = workspace_id /\ row.student_id = student}
    IN  /\ result' =
            IF user_workspace_role # "teacher" /\ ~caller.system_admin
            THEN Call("add_users_json", FALSE, 0, 403, EmptyString)
            ELSE IF ~db_ok \/ new # {}
            THEN Call("add_users_json", FALSE, 0, 500, EmptyString)
            ELSE Call("add_users_json", TRUE, 0, 200, EmptyString)
        /\ UNCHANGED <<now, users, refresh_tokens, user_workspace, workspaces, probe,
                       issued_identity, revoked, calls>>

\* The file of a request of add_users_via_csv: none, or the Network IDs of
\* its rows (an empty one among them or not).
RosterFiles ==
    {[given |-> FALSE, network_ids |-> {}]}
        \cup {[given |-> TRUE, network_ids |-> ids] : ids \in SUBSET {"axa1", "cxc3", ""}}

\* add_users_via_csv: the same for the column "Network ID" of a roster file;
\* rows with an empty Network ID are skipped.
add_users_via_csv(caller, workspace_id, file, db_ok) ==
    LET user_workspace_role == IF DictHasKey(caller.workspace_role, "str", workspace_id)
                               THEN caller.workspace_role[workspace_id] ELSE "None"
        new == {student_id \in file.network_ids \ {""} :
                    ~\E row \in user_workspace :
                        row.workspace_id = workspace_id /\ row.student_id = student_id}
    IN  /\ result' =
            IF ~file.given
            THEN Call("add_users_via_csv", FALSE, 0, 400, EmptyString)
            ELSE IF user_workspace_role # "teacher" /\ ~caller.system_admin
            THEN Call("add_users_via_csv", FALSE, 0, 403, EmptyString)
            ELSE IF ~db_ok \/ new # {}
            THEN Call("add_users_via_csv", FALSE, 0, 500, EmptyString)
            ELSE Call("add_users_via_csv", TRUE, 0, 200, EmptyString)
        /\ UNCHANGED <<now, users, refresh_tokens, user_workspace, workspaces, probe,
                       issued_identity, revoked, calls>>

\* set_user_role_with_user_id: line 802 calls the claims dict when the caller
\* is not a system admin (TypeError before the try block).  A missing
\* membership row is added and committed on its own (line 869); the mapping
\* is written under the UUID key and committed afterwards (line 875).
set_user_role_with_user_id(caller, user_id, workspace_id, role, db_ok1, db_ok2) ==
    LET rows == MembershipRows(user_id, workspace_id)
        added == user_workspace \cup
                    {[user_id |-> user_id, workspace_id |-> workspace_id, role |-> role,
                      student_id |-> users[user_id].student_id]}
        updated == (user_workspace \ rows) \cup {[row EXCEPT !.role = role] : row \in rows}
    IN  /\ IF ~caller.system_admin
           THEN /\ result' = Call("set_user_role_with_user_id", FALSE, user_id, 500, EmptyString)
                /\ UNCHANGED <<users, user_workspace>>
           ELSE IF user_id \notin 1..Len(users)
           THEN /\ result' = Call("set_user_role_with_user_id", FALSE, user_id, 404, EmptyString)
                /\ UNCHANGED <<users, user_workspace>>
           ELSE IF rows = {} /\ ~db_ok1
           THEN /\ result' = Call("set_user_role_with_user_id", FALSE, user_id, 500, EmptyString)
                /\ UNCHANGED <<users, user_workspace>>
           ELSE IF ~db_ok2 \/ ~json_dumps_ok("UUID")
           THEN /\ result' = Call("set_user_role_with_user_id", FALSE, user_id, 500, EmptyString)
                /\ user_workspace' = IF rows = {} THEN added ELSE user_workspace
                /\ users' = users
           ELSE /\ result' = Call("set_user_role_with_user_id", TRUE, user_id, 200, EmptyString)
                /\ user_workspace' = IF rows = {} THEN added ELSE updated
                /\ users' = [users EXCEPT ![user_id].workspace_role =
                                DictSet(@, workspace_id, role)]
        /\ UNCHANGED <<now, refresh_tokens, workspaces, probe, issued_identity, revoked, calls>>

\* student_join_workspace: the caller (user_id and student_id of the claims)
\* turns the pending membership their student_id has in an active workspace
\* into "student" and puts their user_id into the row, the row and the mapping
\* in one commit.  A workspace that is not found among the active ones makes
\* the handler raise on workspace.workspace_join_code.
student_join_workspace(user_id, workspace_id, code_ok, db_ok) ==
    LET rows == {row \in user_workspace :
                    /\ row.student_id = users[user_id].student_id
                    /\ row.workspace_id = workspace_id}
        user_workspace_row == CHOOSE row \in rows : TRUE
    IN  /\ IF user_id \notin 1..Len(users)
           THEN /\ result' = Call("student_join_workspace", FALSE, user_id, 404, EmptyString)
                /\ UNCHANGED <<users, user_workspace>>
           ELSE IF \A w \in workspaces : w.workspace_id # workspace_id \/ w.status # ACTIVE
           THEN /\ result' = Call("student_join_workspace", FALSE, user_id, 500, EmptyString)
                /\ UNCHANGED <<users, user_workspace>>
           ELSE IF ~code_ok
           THEN /\ result' = Call("student_join_workspace", FALSE, user_id, 400, EmptyString)
                /\ UNCHANGED <<users, user_workspace>>
           ELSE IF rows = {}
           THEN /\ result' = Call("student_join_workspace", FALSE, user_id, 404, EmptyString)
                /\ UNCHANGED <<users, user_workspace>>
           ELSE IF user_workspace_row.role # "pending"
           THEN /\ result' = Call("student_join_workspace", FALSE, user_id, 400, EmptyString)
                /\ UNCHANGED <<users, user_workspace>>
           ELSE IF ~db_ok \/ ~json_dumps_ok("UUID")
           THEN /\ result' = Call("student_join_workspace", FALSE, user_id, 500, EmptyString)
                /\ UNCHANGED <<users, user_workspace>>
           ELSE /\ result' = Call("student_join_workspace", TRUE, user_id, 200, EmptyString)
                /\ user_workspace' = (user_workspace \ {user_workspace_row}) \cup
                        {[user_workspace_row EXCEPT !.role = "student",
                                                   !.user_id = user_id]}
                /\ users' = [users EXCEPT ![user_id].workspace_role =
                                DictSet(@, workspace_id, "student")]
        /\ UNCHANGED <<now, refresh_tokens, workspaces, probe, issued_identity, revoked, calls>>

\* delete_user_from_workspace: the caller's role is looked up under the UUID
\* key (never found, so only a system admin passes); the row is deleted and
\* the key removed from the mapping in one commit.  del on a key the mapping
\* does not hold raises KeyError inside the try block.
delete_user_from_workspace(caller, user_id, workspace_id, db_ok) ==
    LET rows == MembershipRows(user_id, workspace_id)
        caller_role == IF DictHasKey(caller.workspace_role, "UUID", workspace_id)
                       THEN caller.workspace_role[workspace_id] ELSE "None"
    IN  /\ IF caller_role # "teacher" /\ ~caller.system_admin
           THEN /\ result' = Call("delete_user_from_workspace", FALSE, user_id, 403, EmptyString)
                /\ UNCHANGED <<users, user_workspace>>
           ELSE IF user_id \notin 1..Len(users) \/ rows = {}
           THEN /\ result' = Call("delete_user_from_workspace", FALSE, user_id, 404, EmptyString)
                /\ UNCHANGED <<users, user_workspace>>
           ELSE IF ~DictHasKey(users[user_id].workspace_role, "UUID", workspace_id) \/ ~db_ok
           THEN /\ result' = Call("delete_user_from_workspace", FALSE, user_id, 500, EmptyString)
                /\ UNCHANGED <<users, user_workspace>>
           ELSE /\ result' = Call("delete_user_from_workspace", TRUE, user_id, 200, EmptyString)
                /\ user_workspace' = user_workspace \ rows
                /\ users' = [users EXCEPT ![user_id].workspace_role =
                                [k \in DOMAIN @ \ {workspace_id} |-> @[k]]]
        /\ UNCHANGED <<now, refresh_tokens, workspaces, probe, issued_identity, revoked, calls>>

\* set_workspace_admin_role: a system admin sets the workspace_admin flag of a
\* user.  An unknown user makes the handler raise inside its try block.
set_workspace_admin_role(caller, user_id, workspace_admin, db_ok) ==
    /\ IF ~caller.system_admin
       THEN /\ result' = Call("set_workspace_admin_role", FALSE, user_id, 403,
                              EmptyString)
            /\ users' = users
       ELSE IF ~db_ok \/ user_id \notin 1..Len(users)
       THEN /\ result' = Call("set_workspace_admin_role", FALSE, user_id, 500,
                              EmptyString)
            /\ users' = users
       ELSE /\ users' = [users EXCEPT ![user_id].workspace_admin = workspace_admin]
            /\ result' = Call("set_workspace_admin_role", TRUE, user_id, 200,
                              EmptyString)
    /\ UNCHANGED <<now, refresh_tokens, user_workspace, workspaces, probe, issued_identity, revoked, calls>>

\* No handler of the service writes the system_admin column: the flag is
\* granted by an update of table ai_users made outside the service.
db_grant_system_admin(user_id) ==
    /\ user_id \in 1..Len(users)
    /\ ~users[user_id].system_admin
    /\ users' = [users EXCEPT ![user_id].system_admin = TRUE]
    /\ result' = Call("db_grant_system_admin", TRUE, user_id, user_id, EmptyString)
    /\ UNCHANGED <<now, refresh_tokens, user_workspace, workspaces, probe, issued_identity, revoked, calls>>

(* -------------------- utils/endpoint_access_map.py --------------------- *)
\* A path is the sequence of its parts, path.split("/"): "/agents/add_agent" is
\* <<"", "agents", "add_agent">>.
Rule(pattern, student, teacher, system_admin, workspace_admin) ==
    [pattern |-> pattern,
     roles |-> [student |-> student, teacher |-> teacher,
                system_admin |-> system_admin, workspace_admin |-> workspace_admin]]

\* The access map, in definition order.
endpoint_access_map ==
    <<
        Rule(<<"", "ai4edu_testing">>, FALSE, FALSE, TRUE, FALSE),
        Rule(<<"", "agent", "{agent_id}">>, TRUE, TRUE, TRUE, FALSE),
        Rule(<<"", "agent", "get", "{agent_id}">>, TRUE, TRUE, TRUE, FALSE),
        Rule(<<"", "agents", "add_agent">>, FALSE, TRUE, TRUE, FALSE),
        Rule(<<"", "agents", "delete_agent">>, FALSE, TRUE, TRUE, FALSE),
        Rule(<<"", "agents", "update_agent">>, FALSE, TRUE, TRUE, FALSE),
        Rule(<<"", "agents", "agents">>, TRUE, TRUE, TRUE, FALSE),
        Rule(<<"", "agents", "agent", "{agent_id}">>, TRUE, TRUE, TRUE, FALSE),
        Rule(<<"", "feedback", "rating">>, TRUE, TRUE, TRUE, FALSE),
        Rule(<<"", "threads", "get_thread", "{thread_id}">>, TRUE, TRUE, TRUE, FALSE),
        Rule(<<"", "threads", "get_thread_list">>, TRUE, TRUE, TRUE, FALSE),
        Rule(<<"", "sso">>, TRUE, TRUE, TRUE, FALSE),
        Rule(<<"", "stream_chat">>, TRUE, TRUE, TRUE, FALSE),
        Rule(<<"", "get_tts_file">>, TRUE, TRUE, TRUE, FALSE),
        Rule(<<"", "get_temp_stt_auth_code">>, TRUE, TRUE, TRUE, FALSE),
        Rule(<<"", "get_new_thread">>, TRUE, TRUE, TRUE, FALSE),
        Rule(<<"", "access", "get_user_list">>, FALSE, TRUE, TRUE, FALSE),
        Rule(<<"", "workspace", "create_workspace">>, FALSE, TRUE, TRUE, TRUE),
        Rule(<<"", "workspace", "set_workspace_status">>, FALSE, TRUE, TRUE, TRUE),
        Rule(<<"", "workspace", "add_users_via_csv">>, FALSE, TRUE, TRUE, TRUE),
        Rule(<<"", "workspace", "add_users_json">>, FALSE, TRUE, TRUE, TRUE),
        Rule(<<"", "workspace", "student_join_workspace">>, TRUE, TRUE, TRUE, TRUE),
        Rule(<<"", "workspace", "delete_user_from_workspace">>, FALSE, TRUE, TRUE, TRUE),
        Rule(<<"", "workspace", "set_user_role_with_user_id">>, FALSE, FALSE, TRUE, TRUE),
        Rule(<<"", "workspace", "get_workspace_list">>, FALSE, FALSE, TRUE, TRUE),
        Rule(<<"", "workspace", "set_workspace_admin_role">>, FALSE, FALSE, FALSE, TRUE),
        Rule(<<"", "workspace", "delete_workspace", "{workspace}">>, FALSE, FALSE, TRUE, TRUE),
        Rule(<<"", "workspace", "get_user_workspace_details">>, FALSE, FALSE, TRUE, TRUE),
        Rule(<<"", "workspace", "edit_workspace">>, FALSE, FALSE, TRUE, TRUE),
        Rule(<<"", "test_query">>, TRUE, TRUE, TRUE, FALSE),
        Rule(<<"", "test_query", "history">>, TRUE, TRUE, TRUE, FALSE),
        Rule(<<"", "test_query", "clear_history">>, TRUE, TRUE, TRUE, FALSE),
        Rule(<<"", "upload_file">>, TRUE, TRUE, TRUE, FALSE),
        Rule(<<"", "get_presigned_url_for_file">>, TRUE, TRUE, TRUE, FALSE),
        Rule(<<"", "ping">>, TRUE, TRUE, TRUE, FALSE),
        Rule(<<"", "openapi.json">>, FALSE, FALSE, TRUE, FALSE)
    >>

\* "{" in part
HasBrace(part) == part \in {"{agent_id}", "{thread_id}", "{workspace}"}

(* --------------------- middleware/authorization.py --------------------- *)
\* The paths that bypass the gate (utils/whitelist.py): the health check, the
\* SSO callback and the static documentation.
whitelist == {<<"", "ping">>, <<"", "sso">>, <<"", "docs">>}

\* A string of the Authorization header is modelled by what split("&") and
\* split("=") make of it: the header is "Bearer " (or not) followed by pairs
\* joined by "&"; a pair has `fields` parts when split on "=", the first is
\* `key` and the second is `value`.
NoneValue == [kind |-> "none", alg |-> "-", sig |-> "-", payload |-> NoPayload]

Pair(fields, key, value) == [fields |-> fields, key |-> key, value |-> value]

\* key, value = pair.split("=") raises ValueError unless there are two parts.
RECURSIVE ExtractPairs(_, _)
ExtractPairs(pairs, acc) ==
    IF Len(pairs) = 0 \/ acc.raised THEN acc
    ELSE LET pair == Head(pairs)
             value == IF pair.value.kind = "empty" THEN NoneValue ELSE pair.value
         IN  ExtractPairs(Tail(pairs),
                IF pair.fields < 2 THEN acc
                ELSE IF pair.fields > 2 THEN [acc EXCEPT !.raised = TRUE]
                ELSE IF pair.key = "access" THEN [acc EXCEPT !.access_token = value]
                ELSE IF pair.key = "refresh" THEN [acc EXCEPT !.refresh_token = value]
                ELSE acc)

extract_token(auth_header) ==
    LET none == [raised |-> FALSE, access_token |-> NoneValue,
                 refresh_token |-> NoneValue]
    IN  IF auth_header.bearer THEN ExtractPairs(auth_header.pairs, none) ELSE none

\* dict.get(role, False) on an entry of the access map.
RoleGet(access_roles, role) ==
    IF role \in DOMAIN access_roles THEN access_roles[role] ELSE FALSE

\* for role, has_role in user_access.items(): has_role and access_roles.get(role)
RoleAllowed(access_roles, user_access) ==
    \E role \in DOMAIN user_access :
        user_access[role] /\ RoleGet(access_roles, role)

\* (mutant) the parts are compared pairwise, as zip() does, without the test
\* of the number of parts
PatternMatchesZip(pattern_parts, path_parts) ==
    \A i \in 1..Len(pattern_parts) :
        i <= Len(path_parts) =>
            (HasBrace(pattern_parts[i]) \/ pattern_parts[i] = path_parts[i])

\* The pattern has as many parts as the path and every part without "{" is equal.
PatternMatches(pattern_parts, path_parts) ==
    /\ Len(pattern_parts) = Len(path_parts)
    /\ \A i \in 1..Len(pattern_parts) :
        HasBrace(pattern_parts[i]) \/ pattern_parts[i] = path_parts[i]

\* The loop over the patterns of the map, from pattern number i on.
RECURSIVE DynamicAccess(_, _, _, _)
DynamicAccess(access_map, user_access, current_path, i) ==
    IF i > Len(access_map) THEN FALSE
    ELSE IF /\ \E k \in 1..Len(access_map[i].pattern) :
                    HasBrace(access_map[i].pattern[k])
            /\ PatternMatches(access_map[i].pattern, current_path)
            /\ RoleAllowed(access_map[i].roles, user_access)
        THEN TRUE
    ELSE DynamicAccess(access_map, user_access, current_path, i + 1)

\* (mutant) a path that matches no pattern is open to the admin role
has_access_admin_default(access_map, user_access, current_path) ==
    IF \E i \in 1..Len(access_map) : access_map[i].pattern = current_path
    THEN LET i == CHOOSE k \in 1..Len(access_map) :
                        access_map[k].pattern = current_path
         IN  RoleAllowed(access_map[i].roles, user_access)
    ELSE \/ DynamicAccess(access_map, user_access, current_path, 1)
         \/ (user_access.admin /\ \A i \in 1..Len(access_map) :
                    ~PatternMatches(access_map[i].pattern, current_path))

has_access(access_map, user_access, current_path) ==
    IF \E i \in 1..Len(access_map) : access_map[i].pattern = current_path
    THEN LET i == CHOOSE k \in 1..Len(access_map) :
                        access_map[k].pattern = current_path
         IN  RoleAllowed(access_map[i].roles, user_access)
    ELSE DynamicAccess(access_map, user_access, current_path, 1)

\* (mutant) path_parts[3:]: one part too few is removed
extract_actual_path_3(path_parts) ==
    IF Len(path_parts) > 3
    THEN <<"">> \o SubSeq(path_parts, 4, Len(path_parts))
    ELSE <<"", "">>

\* "/" + "/".join(path.split("/")[4:]), again as the sequence of its parts.
extract_actual_path(path_parts) ==
    IF Len(path_parts) > 4
    THEN <<"">> \o SubSeq(path_parts, 5, Len(path_parts))
    ELSE <<"", "">>

(* ------------------------ common/JWTValidator.py ----------------------- *)
UserJWTContentKeys ==
    {"user_id", "first_name", "last_name", "student_id", "workspace_role",
     "system_admin", "workspace_admin", "email", "iat", "exp"}

\* parse_jwt: the typed content, or None when a key is missing.
parse_jwt(user_jwt_content) ==
    IF UserJWTContentKeys \subseteq DOMAIN user_jwt_content
    THEN [user_id |-> StrToInt(user_jwt_content.user_id),
          first_name |-> user_jwt_content.first_name,
          last_name |-> user_jwt_content.last_name,
          student_id |-> user_jwt_content.student_id,
          workspace_role |-> user_jwt_content.workspace_role,
          system_admin |-> user_jwt_content.system_admin,
          workspace_admin |-> user_jwt_content.workspace_admin,
          email |-> user_jwt_content.email,
          iat |-> user_jwt_content.iat * TicksPerSec,
          exp |-> user_jwt_content.exp * TicksPerSec]
    ELSE NoPayload

\* (mutant) student only for a user who is student in some workspace
extract_role_some_student(access_token_load) ==
    IF access_token_load = NoPayload
    THEN [admin |-> FALSE, teacher |-> FALSE, student |-> FALSE]
    ELSE [admin |-> access_token_load.system_admin,
          teacher |-> \E w \in DOMAIN access_token_load.workspace_role :
                            access_token_load.workspace_role[w] = "teacher",
          student |-> \E w \in DOMAIN access_token_load.workspace_role :
                            access_token_load.workspace_role[w] = "student"]

extract_role(access_token_load) ==
    IF access_token_load = NoPayload
    THEN [admin |-> FALSE, teacher |-> FALSE, student |-> FALSE]
    ELSE [admin |-> access_token_load.system_admin,
          teacher |-> \E w \in DOMAIN access_token_load.workspace_role :
                            access_token_load.workspace_role[w] = "teacher",
          student |-> TRUE]

\* What dispatch answers: the request goes to the next stage (admitted, with
\* the claims attached to request.state.user_jwt_content), or a response with
\* an HTTP status and a body {success: false, message, status_code}, or an
\* exception leaves the middleware (raised).
DispatchOut(admitted, raised, http_status, status_code, message, claims) ==
    [admitted |-> admitted, raised |-> raised, http_status |-> http_status,
     status_code |-> status_code, message |-> message,
     user_jwt_content |-> claims]

Unauthorized == DispatchOut(FALSE, FALSE, 401, 401, "unauthorized", NoPayload)

\* AuthorizationMiddleware.dispatch for a request, jwt.decode reading the clock
\* at t.
dispatch(request, t) ==
    LET path == extract_actual_path(request.path) IN
    IF path \in whitelist
        THEN DispatchOut(TRUE, FALSE, 0, 0, "call_next", NoPayload)
    ELSE LET tokens == extract_token(request.header) IN
    IF tokens.raised
        THEN DispatchOut(FALSE, TRUE, 500, 0, "ValueError", NoPayload)
    ELSE IF tokens.access_token # NoneValue
        THEN LET parse_result == parse_token(tokens.access_token, t) IN
             IF parse_result.raised
                THEN DispatchOut(FALSE, TRUE, 500, 0, parse_result.message, NoPayload)
             ELSE IF parse_result.success /\ parse_result.data # NoPayload
                THEN IF has_access(endpoint_access_map,
                                   extract_role(parse_jwt(parse_result.data)), path)
                     THEN DispatchOut(TRUE, FALSE, 0, 0, "call_next",
                                      parse_result.data)
                     ELSE Unauthorized
             ELSE DispatchOut(FALSE, FALSE, 401, parse_result.status_code,
                              parse_result.message, NoPayload)
    ELSE Unauthorized

(* -------------------------- requests and tokens ------------------------ *)
\* The arguments of a call of jwt_generator: the columns of a row of ai_users
\* as gen_access_token hands them over (UserAuth.py:139-147), user_id as str.
GeneratorArgs(workspace_role, system_admin) ==
    [user_id |-> IntToStr(1), first_name |-> "Ada", last_name |-> "A",
     student_id |-> "axa1", workspace_role |-> workspace_role,
     system_admin |-> system_admin, email |-> "a@x.edu"]

GeneratorInputs ==
    {GeneratorArgs(workspace_role, system_admin) :
        workspace_role \in
            {<< >>,
             [w \in {"w1"} |-> "teacher"],
             [w \in {"w1", "w2"} |-> IF w = "w1" THEN "student" ELSE "pending"]},
        system_admin \in BOOLEAN}

\* A call of jwt_generator(user_id, first_name, last_name, student_id,
\* workspace_role, system_admin, email); it reads the clock twice.  The record
\* of the call keeps the arguments and the two readings.
JwtGenerator(args) ==
    /\ \E t1 \in Later(now) : \E t2 \in Later(t1) :
        /\ now' = t2
        /\ result' = Call("jwt_generator", TRUE, StrToInt(args.user_id),
                          [args |-> args, t1 |-> t1, t2 |-> t2],
                          jwt_generator(args.user_id, args.first_name,
                              args.last_name, args.student_id,
                              args.workspace_role, args.system_admin,
                              args.email, t1, t2))
    /\ UNCHANGED <<users, refresh_tokens, user_workspace, workspaces, probe,
                   issued_identity, revoked, calls>>

\* A token with the payload changed by someone who does not have the key.
Tampered(token) ==
    [token EXCEPT !.sig = "forged",
                  !.payload = [i \in DOMAIN @ |->
                                IF @[i][1] = "system_admin"
                                THEN <<"system_admin", TRUE>> ELSE @[i]]]

\* A token signed with another algorithm than RS256.
WrongAlg(token) == [token EXCEPT !.alg = "HS256", !.sig = "forged"]

\* The strings a client can hand in as access token: the token the last call
\* of jwt_generator returned, what a client can make of it, and strings that
\* are no token.
TokenStrings ==
    {EmptyString, Garbage}
    \cup (IF result.token.kind = "jwt"
          THEN {result.token, Tampered(result.token), WrongAlg(result.token)}
          ELSE {})

RefreshString == [kind |-> "uuid", alg |-> "-", sig |-> "-", payload |-> NoPayload]

\* "", "Bearer access=<A>&refresh=<R>", "Bearer refresh=<R>",
\* "Bearer access&refresh=<R>" and "Bearer access=<A>=x&refresh=<R>".
Headers ==
    {[bearer |-> FALSE, pairs |-> << >>]}
    \cup {[bearer |-> TRUE,
           pairs |-> <<Pair(2, "access", a), Pair(2, "refresh", RefreshString)>>] :
            a \in TokenStrings}
    \cup {[bearer |-> TRUE, pairs |-> <<Pair(2, "refresh", RefreshString)>>],
          [bearer |-> TRUE,
           pairs |-> <<Pair(1, "access", EmptyString),
                       Pair(2, "refresh", RefreshString)>>],
          [bearer |-> TRUE,
           pairs |-> <<Pair(3, "access", Garbage),
                       Pair(2, "refresh", RefreshString)>>]}

\* "/v1/prod/user/agent/42" and "/v1/prod/user/ping"
RequestPaths ==
    {<<"", "v1", "prod", "user", "agent", "42">>,
     <<"", "v1", "prod", "user", "ping">>}

\* A call of parse_token by a client of the codec; jwt.decode reads the clock
\* once.
ParseToken ==
    /\ \E token \in TokenStrings :
        probe' = [fn |-> "parse_token", token |-> token, at |-> now,
                  out |-> parse_token(token, now)]
    /\ UNCHANGED <<now, users, refresh_tokens, user_workspace, workspaces, result,
                   issued_identity, revoked, calls>>

\* A request through the middleware.
Dispatch ==
    /\ \E path \in RequestPaths : \E header \in Headers :
        LET request == [path |-> path, header |-> header] IN
        probe' = [fn |-> "dispatch", request |-> request, at |-> now,
                  out |-> dispatch(request, now)]
    /\ UNCHANGED <<now, users, refresh_tokens, user_workspace, workspaces, result,
                   issued_identity, revoked, calls>>

(* --------------------------- specifications ---------------------------- *)
\* The refresh-token store under the clock.
Next ==
    \/ Tick({0, RefreshTTL})
    \/ \E email \in Emails : user_login(email, TRUE)
    \/ \E user_id \in UserIds : gen_refresh_token(user_id, TRUE)
    \/ \E refresh_token \in 1..(MaxRefresh + 1) :
            gen_access_token_query("c1", refresh_token)
    \/ gen_access_token_commit("c1", TRUE)
    \/ \E user_id \in UserIds : user_logout_all_devices_query("c2", user_id, TRUE)
    \/ user_logout_all_devices_commit("c2", TRUE)

Spec == Init /\ [][Next]_vars

\* The identity of a user changing between the issue of a credential and its
\* redemption (one user with one credential; the caller of the admin handlers
\* is any caller).
NextIdentity ==
    \/ user_login("a@x.edu", TRUE)
    \/ (Len(refresh_tokens) = 0 /\ gen_refresh_token(1, TRUE))
    \/ gen_access_token_query("c1", 1)
    \/ gen_access_token_commit("c1", TRUE)
    \/ (workspaces = {} /\ create_workspace_query("c2", SystemAdmin, 1, TRUE))
    \/ \E db \in CommitOutcomes : create_workspace_commit("c2", db)
    \/ \E caller \in CallerClaims : \E workspace_admin \in BOOLEAN :
       \E db_ok \in BOOLEAN :
            set_workspace_admin_role(caller, 1, workspace_admin, db_ok)
    \/ db_grant_system_admin(1)
    \/ \E w \in workspaces :
            set_user_role_with_user_id(SystemAdmin, 1, w.workspace_id, "student", TRUE, TRUE)
    \/ \E w \in workspaces : student_join_workspace(1, w.workspace_id, TRUE, TRUE)
    \/ \E w \in workspaces :
            delete_user_from_workspace(SystemAdmin, 1, w.workspace_id, TRUE)
    \/ \E w \in workspaces, workspace_status \in {ACTIVE, INACTIVE} :
            set_workspace_status("c2", SystemAdmin, w.workspace_id, workspace_status, TRUE)
    \/ remove_workspace_roles("c2")
    \/ restore_workspace_roles_query("c2", TRUE)
    \/ restore_workspace_roles_commit("c2", TRUE)

SpecIdentity == Init /\ [][NextIdentity]_vars

\* The token codec: jwt_generator applied to the arguments of a bounded set,
\* and the tokens it returns and the strings a client makes of them handed to
\* parse_token while time passes.
NextCodec ==
    \/ Tick({0, SessionTTL})
    \/ \E args \in GeneratorInputs : JwtGenerator(args)
    \/ ParseToken

SpecCodec == Init /\ [][NextCodec]_vars

\* The gate: the same tokens, carried by requests through the middleware.
NextGate ==
    \/ Tick({0, SessionTTL})
    \/ \E args \in GeneratorInputs : JwtGenerator(args)
    \/ Dispatch

SpecGate == Init /\ [][NextGate]_vars

\* extract_role applied to every claims value of a bounded set.
WorkspaceRoleMaps == UNION {[D -> RoleNames] : D \in SUBSET Workspaces}

RoleInputs ==
    {NoPayload} \cup
    {[user_id |-> 1, first_name |-> "Ada", last_name |-> "A",
      student_id |-> "axa1", workspace_role |-> wr, system_admin |-> sa,
      workspace_admin |-> wa, email |-> "a@x.edu", iat |-> 0, exp |-> SessionTTL] :
        wr \in WorkspaceRoleMaps, sa \in BOOLEAN, wa \in BOOLEAN}

InitRole ==
    /\ now = 0
    /\ users = << >>
    /\ refresh_tokens = << >>
    /\ user_workspace = {}
    /\ workspaces = {}
    /\ result = [op |-> "none", flip |-> 0, ok |-> FALSE, uid |-> 0, arg |-> 0,
                 token |-> EmptyString]
    /\ probe \in {[fn |-> "extract_role", done |-> FALSE, input |-> c,
                   output |-> NoPayload] : c \in RoleInputs}
    /\ issued_identity = << >>
    /\ revoked = {}
    /\ calls = [id \in CallIds |-> IdleCall]

ExtractRole ==
    /\ probe.fn = "extract_role"
    /\ ~probe.done
    /\ probe' = [probe EXCEPT !.done = TRUE, !.output = extract_role(probe.input)]
    /\ UNCHANGED <<now, users, refresh_tokens, user_workspace, workspaces, result,
                   issued_identity, revoked, calls>>

NextRole == ExtractRole

SpecRole == InitRole /\ [][NextRole]_vars

\* The path matcher: extract_actual_path and has_access as dispatch applies
\* them (authorization.py:173 and :185) to a request path and a role set.
\* URL_PATHS of main.py: /v1 with /dev or /prod and /admin or /user.
UrlPrefixes ==
    {<<"", "v1", env, group>> : env \in {"dev", "prod"}, group \in {"admin", "user"}}

\* What follows the prefix in the request path, split on "/".
PathRests ==
    {<<"agents", "agent", "123">>,
     <<"agents", "agent", "abc-def">>,
     <<"agents", "agent", "123", "extra">>,
     <<"agents", "agent">>,
     <<"agents", "add_agent">>,
     <<"agent", "get">>,
     <<"agent", "get", "7">>,
     <<"workspace", "delete_workspace", "w1">>,
     <<"nowhere", "agent", "123">>,
     << >>}

\* The role sets extract_role can return.
RoleSets == {extract_role(c) : c \in RoleInputs}

InitPath ==
    /\ now = 0
    /\ users = << >>
    /\ refresh_tokens = << >>
    /\ user_workspace = {}
    /\ workspaces = {}
    /\ result = [op |-> "none", flip |-> 0, ok |-> FALSE, uid |-> 0, arg |-> 0,
                 token |-> EmptyString]
    /\ probe \in {[fn |-> "path", stage |-> "request", prefix |-> prefix,
                   rest |-> rest, user_access |-> user_access,
                   path |-> <<"", "">>, output |-> FALSE] :
                    prefix \in UrlPrefixes, rest \in PathRests,
                    user_access \in RoleSets}
    /\ issued_identity = << >>
    /\ revoked = {}
    /\ calls = [id \in CallIds |-> IdleCall]

\* path = extract_actual_path(request.url.path)
ExtractActualPath ==
    /\ probe.fn = "path"
    /\ probe.stage = "request"
    /\ probe' = [probe EXCEPT !.stage = "path",
                    !.path = extract_actual_path(probe.prefix \o probe.rest)]
    /\ UNCHANGED <<now, users, refresh_tokens, user_workspace, workspaces, result,
                   issued_identity, revoked, calls>>

\* has_access(endpoint_access_map, user_access, path)
HasAccess ==
    /\ probe.fn = "path"
    /\ probe.stage = "path"
    /\ probe' = [probe EXCEPT !.stage = "done",
                    !.output = has_access(endpoint_access_map, probe.user_access,
                                          probe.path)]
    /\ UNCHANGED <<now, users, refresh_tokens, user_workspace, workspaces, result,
                   issued_identity, revoked, calls>>

NextPath ==
    \/ ExtractActualPath
    \/ HasAccess

SpecPath == InitPath /\ [][NextPath]_vars

\* Requests in flight.  Each request is handled by its own call of dispatch,
\* whose frame holds the request and the locals path, tokens and parse_result;
\* between two statements of a call the calls for other requests may run.
\* probe.slots[id] is the call for the request id: where it is, its request,
\* its locals, the clock reading of jwt.decode, the answer, and (history)
\* whether another call was in flight when it entered.  probe.last (history)
\* is the call that entered last.
RequestIds == {"r1", "r2"}

InFlightRequests ==
    {[path |-> path, header |-> header] :
        path \in RequestPaths,
        header \in {[bearer |-> FALSE, pairs |-> << >>]} \cup
                   {[bearer |-> TRUE,
                     pairs |-> <<Pair(2, "access", a),
                                 Pair(2, "refresh", RefreshString)>>] :
                        a \in TokenStrings}}

IdleSlot ==
    [pc |-> "idle",
     request |-> [path |-> << >>, header |-> [bearer |-> FALSE, pairs |-> << >>]],
     path |-> << >>,
     tokens |-> extract_token([bearer |-> FALSE, pairs |-> << >>]),
     parse_result |-> ParseOut(FALSE, FALSE, 0, "", NoPayload),
     at |-> 0, out |-> Unauthorized, overlapped |-> FALSE]

\* The server starts to serve requests.
OpenGate ==
    /\ probe = NoProbe
    /\ probe' = [fn |-> "inflight", last |-> "r1",
                 slots |-> [id \in RequestIds |-> IdleSlot]]
    /\ UNCHANGED <<now, users, refresh_tokens, user_workspace, workspaces, result,
                   issued_identity, revoked, calls>>

\* dispatch(self, request, call_next) is entered for a request.
EnterDispatch(id, request) ==
    /\ probe.fn = "inflight"
    /\ probe.slots[id].pc = "idle"
    /\ probe' = [probe EXCEPT
                    !.last = id,
                    !.slots = [@ EXCEPT ![id] =
                        [IdleSlot EXCEPT !.pc = "entered", !.request = request,
                            !.overlapped = \E other \in RequestIds :
                                probe.slots[other].pc \notin {"idle", "answered"}]]]
    /\ UNCHANGED <<now, users, refresh_tokens, user_workspace, workspaces, result,
                   issued_identity, revoked, calls>>

\* (mutant) the request is kept in one place shared by all calls, where the
\* call that entered last has put its own
FrameRequestShared(id) == probe.slots[probe.last].request

\* The request the call for id works on: the parameter `request` of its frame.
FrameRequest(id) == probe.slots[id].request

\* The call for id returns out: a response, or what call_next returns.
Answer(id, out) ==
    probe' = [probe EXCEPT !.slots = [@ EXCEPT ![id] =
                [@ EXCEPT !.pc = "answered", !.out = out]]]

\* authorization.py:173-179 for the request id: the path, the whitelist and
\* the tokens of the header; a request without access token falls through to
\* the response of :197-200.
DispatchPath(id) ==
    /\ probe.fn = "inflight"
    /\ probe.slots[id].pc = "entered"
    /\ LET request == FrameRequest(id)
           path == extract_actual_path(request.path)
           tokens == extract_token(request.header)
       IN  IF path \in whitelist
                THEN Answer(id, DispatchOut(TRUE, FALSE, 0, 0, "call_next", NoPayload))
           ELSE IF tokens.raised
                THEN Answer(id, DispatchOut(FALSE, TRUE, 500, 0, "ValueError", NoPayload))
           ELSE IF tokens.access_token = NoneValue
                THEN Answer(id, Unauthorized)
           ELSE probe' = [probe EXCEPT !.slots = [@ EXCEPT ![id] =
                    [@ EXCEPT !.pc = "tokens", !.path = path, !.tokens = tokens]]]
    /\ UNCHANGED <<now, users, refresh_tokens, user_workspace, workspaces, result,
                   issued_identity, revoked, calls>>

\* authorization.py:180-181 and :188-196: parse_token of the access token the
\* call has extracted, jwt.decode reading the clock.
DispatchParse(id) ==
    /\ probe.fn = "inflight"
    /\ probe.slots[id].pc = "tokens"
    /\ LET parse_result == parse_token(probe.slots[id].tokens.access_token, now)
           out == IF parse_result.raised
                  THEN DispatchOut(FALSE, TRUE, 500, 0, parse_result.message, NoPayload)
                  ELSE DispatchOut(FALSE, FALSE, 401, parse_result.status_code,
                                   parse_result.message, NoPayload)
       IN  probe' = [probe EXCEPT !.slots = [@ EXCEPT ![id] =
                IF parse_result.success /\ parse_result.data # NoPayload
                THEN [@ EXCEPT !.pc = "parsed", !.at = now,
                               !.parse_result = parse_result]
                ELSE [@ EXCEPT !.pc = "answered", !.at = now,
                               !.parse_result = parse_result, !.out = out]]]
    /\ UNCHANGED <<now, users, refresh_tokens, user_workspace, workspaces, result,
                   issued_identity, revoked, calls>>

\* authorization.py:182-187 and :197-200: the roles of the claims the call has
\* parsed against the entry of its path; admitted, the claims are set on the
\* state of its request.
DispatchAccess(id) ==
    /\ probe.fn = "inflight"
    /\ probe.slots[id].pc = "parsed"
    /\ LET slot == probe.slots[id]
           user_access == extract_role(parse_jwt(slot.parse_result.data))
       IN  IF has_access(endpoint_access_map, user_access, slot.path)
           THEN Answer(id, DispatchOut(TRUE, FALSE, 0, 0, "call_next",
                                       slot.parse_result.data))
           ELSE Answer(id, Unauthorized)
    /\ UNCHANGED <<now, users, refresh_tokens, user_workspace, workspaces, result,
                   issued_identity, revoked, calls>>

\* Session tokens are made, then the server takes requests that carry them
\* while time passes.
NextInFlight ==
    \/ Tick({0, SessionTTL})
    \/ (probe = NoProbe /\ \E args \in GeneratorInputs : JwtGenerator(args))
    \/ OpenGate
    \/ \E id \in RequestIds : \E request \in InFlightRequests :
            EnterDispatch(id, request)
    \/ \E id \in RequestIds : DispatchPath(id)
    \/ \E id \in RequestIds : DispatchParse(id)
    \/ \E id \in RequestIds : DispatchAccess(id)

SpecInFlight == Init /\ [][NextInFlight]_vars

\* The store of one user with a database that can fail: any commit may raise,
\* and gen_refresh_token may be called for a user_id that is in no row of
\* ai_users (the foreign key then fails).
NextFaulty ==
    \/ Tick({0, RefreshTTL})
    \/ \E db_ok \in BOOLEAN : user_login("a@x.edu", db_ok)
    \/ \E user_id \in UserIds : \E db_ok \in BOOLEAN :
            gen_refresh_token(user_id, db_ok)
    \/ \E refresh_token \in 1..(MaxRefresh + 1) :
            gen_access_token_query("c1", refresh_token)
    \/ \E db_ok \in BOOLEAN : gen_access_token_commit("c1", db_ok)
    \/ \E db_ok \in BOOLEAN : user_logout_all_devices_query("c2", 1, db_ok)
    \/ \E db_ok \in BOOLEAN : user_logout_all_devices_commit("c2", db_ok)

SpecFaulty == Init /\ [][NextFaulty]_vars

\* Logins racing each other.  Every call of user_login has a database session
\* of its own; between its query (UserAuth.py:39-41) and its commit
\* (UserAuth.py:62) other calls may query and commit.  probe.logins[id] is the
\* call id: where it is, its e-mail, what its query returned (user_db, 0 for
\* None) and what the call returned (user_id, or ok = FALSE for False).
LoginCalls == {"s1", "s2"}

IdleLogin == [pc |-> "idle", email |-> "", user_db |-> 0, ok |-> FALSE, user_id |-> 0]

StartLogins ==
    /\ probe = NoProbe
    /\ probe' = [fn |-> "logins", logins |-> [id \in LoginCalls |-> IdleLogin]]
    /\ UNCHANGED <<now, users, refresh_tokens, user_workspace, workspaces, result,
                   issued_identity, revoked, calls>>

\* user_db = self.db.query(User).filter(User.email == user_info["mail"]).first()
LoginQuery(id, email) ==
    /\ probe.fn = "logins"
    /\ probe.logins[id].pc = "idle"
    /\ probe' = [probe EXCEPT !.logins = [@ EXCEPT ![id] =
                    [IdleLogin EXCEPT !.pc = "queried", !.email = email,
                        !.user_db = First({i \in 1..Len(users) :
                                            users[i].email = email})]]]
    /\ UNCHANGED <<now, users, refresh_tokens, user_workspace, workspaces, result,
                   issued_identity, revoked, calls>>

\* The rest of user_login: the new row or the bump of last_login, the commit
\* and the return.  The INSERT of an e-mail that a committed row has violates
\* unique(email); the exception is caught, the session rolled back and False
\* returned.
LoginCommit(id) ==
    LET call == probe.logins[id]
        info == SsoDirectory[call.email]
    IN  /\ probe.fn = "logins"
        /\ call.pc = "queried"
        /\ IF call.user_db # 0
           THEN /\ users' = users
                /\ probe' = [probe EXCEPT !.logins = [@ EXCEPT ![id] =
                        [call EXCEPT !.pc = "returned", !.ok = TRUE,
                                     !.user_id = call.user_db]]]
           ELSE IF \E i \in 1..Len(users) : users[i].email = call.email
           THEN /\ users' = users
                /\ probe' = [probe EXCEPT !.logins = [@ EXCEPT ![id] =
                        [call EXCEPT !.pc = "returned", !.ok = FALSE]]]
           ELSE /\ users' = Append(users,
                        [email |-> call.email,
                         first_name |-> info.givenName,
                         last_name |-> info.sn,
                         student_id |-> info.student_id,
                         workspace_role |-> << >>,
                         system_admin |-> FALSE,
                         workspace_admin |-> FALSE])
                /\ probe' = [probe EXCEPT !.logins = [@ EXCEPT ![id] =
                        [call EXCEPT !.pc = "returned", !.ok = TRUE,
                                     !.user_id = Len(users) + 1]]]
        /\ UNCHANGED <<now, refresh_tokens, user_workspace, workspaces, result,
                       issued_identity, revoked, calls>>

NextLogins ==
    \/ StartLogins
    \/ \E email \in Emails : user_login(email, TRUE)
    \/ \E id \in LoginCalls : \E email \in Emails : LoginQuery(id, email)
    \/ \E id \in LoginCalls : LoginCommit(id)

SpecLogins == Init /\ [][NextLogins]_vars

\* has_access on access maps in which two templated patterns match the same
\* path: /agent/{agent_id} and /{workspace}/get both match /agent/get.  The
\* maps have the two entries in either order and with any permissions for
\* student and teacher.
OverlapMaps ==
    {<<Rule(<<"", "agent", "{agent_id}">>, s1, t1, FALSE, FALSE),
       Rule(<<"", "{workspace}", "get">>, s2, t2, FALSE, FALSE)>> :
        s1 \in BOOLEAN, t1 \in BOOLEAN, s2 \in BOOLEAN, t2 \in BOOLEAN}
    \cup
    {<<Rule(<<"", "{workspace}", "get">>, s2, t2, FALSE, FALSE),
       Rule(<<"", "agent", "{agent_id}">>, s1, t1, FALSE, FALSE)>> :
        s1 \in BOOLEAN, t1 \in BOOLEAN, s2 \in BOOLEAN, t2 \in BOOLEAN}

OverlapPaths ==
    {<<"", "agent", "get">>, <<"", "agent", "42">>, <<"", "w1", "get">>}

InitOverlap ==
    /\ now = 0
    /\ users = << >>
    /\ refresh_tokens = << >>
    /\ user_workspace = {}
    /\ workspaces = {}
    /\ result = [op |-> "none", flip |-> 0, ok |-> FALSE, uid |-> 0, arg |-> 0,
                 token |-> EmptyString]
    /\ probe \in {[fn |-> "has_access", done |-> FALSE, access_map |-> access_map,
                   user_access |-> user_access, path |-> path, output |-> FALSE] :
                    access_map \in OverlapMaps, user_access \in RoleSets,
                    path \in OverlapPaths}
    /\ issued_identity = << >>
    /\ revoked = {}
    /\ calls = [id \in CallIds |-> IdleCall]

\* has_access(endpoint_access_map, user_access, current_path)
HasAccessOverlap ==
    /\ probe.fn = "has_access"
    /\ ~probe.done
    /\ probe' = [probe EXCEPT !.done = TRUE,
                    !.output = has_access(probe.access_map, probe.user_access,
                                          probe.path)]
    /\ UNCHANGED <<now, users, refresh_tokens, user_workspace, workspaces, result,
                   issued_identity, revoked, calls>>

NextOverlap == HasAccessOverlap

SpecOverlap == InitOverlap /\ [][NextOverlap]_vars

\* Redemptions racing each other: two calls of gen_access_token for the
\* credentials of one user, each with a database session of its own.
NextRedeems ==
    \/ Tick({0, RefreshTTL})
    \/ user_login("a@x.edu", TRUE)
    \/ gen_refresh_token(1, TRUE)
    \/ \E id \in CallIds : \E refresh_token \in 1..(MaxRefresh + 1) :
            gen_access_token_query(id, refresh_token)
    \/ \E id \in CallIds : \E db_ok \in BOOLEAN : gen_access_token_commit(id, db_ok)

SpecRedeems == Init /\ [][NextRedeems]_vars

(* ===================== workspace membership handlers =================== *)
\* the row user_login inserts for an email on its first login
FirstLoginRow(email) ==
    [email |-> email,
     first_name |-> SsoDirectory[email].givenName,
     last_name |-> SsoDirectory[email].sn,
     student_id |-> SsoDirectory[email].student_id,
     workspace_role |-> << >>,
     system_admin |-> FALSE,
     workspace_admin |-> FALSE]

\* The membership handlers start from the users table the first logins left.
InitMembers ==
    /\ now = 0
    /\ users = <<FirstLoginRow("a@x.edu")>>
    /\ refresh_tokens = << >>
    /\ user_workspace = {}
    /\ workspaces = {}
    /\ result = [op |-> "none", flip |-> 0, ok |-> FALSE, uid |-> 0, arg |-> 0,
                 token |-> EmptyString]
    /\ probe = NoProbe
    /\ issued_identity = << >>
    /\ revoked = {}
    /\ calls = [id \in CallIds |-> IdleCall]

\* The handlers are called for the workspaces that exist; only
\* student_join_workspace looks the workspace up.
NextMembers ==
    \/ \E id \in CallIds, caller \in MemberCallers, user_id \in UserIds,
          db_ok \in BOOLEAN :
            create_workspace_query(id, caller, user_id, db_ok)
    \/ \E id \in CallIds, db \in CommitOutcomes : create_workspace_commit(id, db)
    \/ \E caller \in MemberCallers, user_id \in UserIds, w \in workspaces,
          role \in {"student", "pending"}, db_ok1 \in BOOLEAN, db_ok2 \in BOOLEAN :
            set_user_role_with_user_id(caller, user_id, w.workspace_id, role, db_ok1, db_ok2)
    \/ \E user_id \in UserIds, workspace_id \in Workspaces, code_ok \in BOOLEAN,
          db_ok \in BOOLEAN :
            student_join_workspace(user_id, workspace_id, code_ok, db_ok)
    \/ \E caller \in MemberCallers, user_id \in UserIds, w \in workspaces,
          db_ok \in BOOLEAN :
            delete_user_from_workspace(caller, user_id, w.workspace_id, db_ok)
    \/ \E caller \in MemberCallers, workspace_id \in Workspaces,
          workspace_status \in {ACTIVE, INACTIVE, DELETED}, db_ok \in BOOLEAN :
            set_workspace_status("c1", caller, workspace_id, workspace_status, db_ok)
    \/ remove_workspace_roles("c1")
    \/ \E db_ok \in BOOLEAN : restore_workspace_roles_query("c1", db_ok)
    \/ \E db_ok \in BOOLEAN : restore_workspace_roles_commit("c1", db_ok)
    \/ \E caller \in MemberCallers, workspace \in Workspaces, db_ok \in BOOLEAN :
            delete_workspace(caller, workspace, db_ok)
    \/ \E caller \in MemberCallers, students \in SUBSET StudentIds, db_ok \in BOOLEAN :
            add_users_json(caller, "w1", students, db_ok)
    \/ \E caller \in MemberCallers, file \in RosterFiles, db_ok \in BOOLEAN :
            add_users_via_csv(caller, "w1", file, db_ok)

SpecMembers == InitMembers /\ [][NextMembers]_vars

(* ------------------------- handlers: get_jwt --------------------------- *)
\* default_jwt: the identity of nobody; iat and exp are two clock readings,
\* t1 and t2.
default_jwt(t1, t2) ==
    [user_id |-> -1,
     first_name |-> "",
     last_name |-> "",
     student_id |-> "",
     workspace_role |-> << >>,
     system_admin |-> FALSE,
     workspace_admin |-> FALSE,
     email |-> "",
     iat |-> t1,
     exp |-> t2]

\* request.state as dispatch leaves it: the attribute user_jwt_content is set
\* only on the branch that attaches the claims (authorization.py:186).
RequestState(dispatch_out) ==
    [has_user_jwt_content |-> dispatch_out.user_jwt_content # NoPayload,
     user_jwt_content |-> dispatch_out.user_jwt_content]

\* What get_jwt gives: the content, or the exception it raises.
JwtOut(raised, content) == [raised |-> raised, content |-> content]

\* get_jwt(state): parse_jwt(state.user_jwt_content) or default_jwt(); reading
\* an attribute that was never set on the state raises AttributeError.
get_jwt(state, t1, t2) ==
    IF ~state.has_user_jwt_content
        THEN JwtOut("AttributeError", NoPayload)
    ELSE IF parse_jwt(state.user_jwt_content) # NoPayload
        THEN JwtOut("none", parse_jwt(state.user_jwt_content))
    ELSE JwtOut("none", default_jwt(t1, t2))

\* "/v1/prod/admin/agents/agents" (list_agents) and
\* "/v1/prod/admin/agents/add_agent" (create_agent): handlers that begin with
\* get_jwt(request.state).
HandlerPaths ==
    {<<"", "v1", "prod", "admin", "agents", "agents">>,
     <<"", "v1", "prod", "admin", "agents", "add_agent">>}

\* A request to a handler that calls get_jwt: dispatch (jwt.decode reads the
\* clock at t0) answers itself, or attaches the claims (authorization.py:186)
\* and calls the handler, which calls get_jwt; default_jwt reads the clock
\* twice.  Dispatch and get_jwt touch the request and the clock only, so the
\* two are one step.
GetJwt ==
    /\ \E path \in HandlerPaths : \E token \in TokenStrings :
       \E t0 \in Later(now) : \E t1 \in Later(t0) : \E t2 \in Later(t1) :
        LET request == [path |-> path,
                        header |-> [bearer |-> TRUE,
                                    pairs |-> <<Pair(2, "access", token),
                                                Pair(2, "refresh", RefreshString)>>]]
            dispatch_out == dispatch(request, t0)
        IN  IF dispatch_out.admitted
            THEN /\ now' = t2
                 /\ probe' = [fn |-> "get_jwt", request |-> request, at |-> t0,
                              user_jwt_content |-> dispatch_out.user_jwt_content,
                              out |-> get_jwt(RequestState(dispatch_out), t1, t2)]
            ELSE /\ now' = t0
                 /\ probe' = [fn |-> "dispatch", request |-> request, at |-> t0,
                              out |-> dispatch_out]
    /\ UNCHANGED <<users, refresh_tokens, user_workspace, workspaces, result,
                   issued_identity, revoked, calls>>

\* Handlers behind the gate: requests that carry the tokens jwt_generator
\* returns, and what a client makes of them, while time passes.
NextHandler ==
    \/ Tick({0, SessionTTL})
    \/ \E args \in GeneratorInputs : JwtGenerator(args)
    \/ GetJwt

SpecHandler == Init /\ [][NextHandler]_vars

\* Redemptions in flight while the owner of the credential logs out.
NextRevoke ==
    \/ Tick({0, RefreshTTL})
    \/ user_login("a@x.edu", TRUE)
    \/ gen_refresh_token(1, TRUE)
    \/ \E id \in CallIds : \E refresh_token \in 1..(MaxRefresh + 1) :
            gen_access_token_query(id, refresh_token)
    \/ \E id \in CallIds : \E db_ok \in BOOLEAN : gen_access_token_commit(id, db_ok)
    \/ \E id \in CallIds : user_logout_all_devices_query(id, 1, TRUE)
    \/ \E id \in CallIds : user_logout_all_devices_commit(id, TRUE)

SpecRevoke == Init /\ [][NextRevoke]_vars

(* --------------------- main.py: generate_access_token ------------------ *)
\* The credential refresh_token as the value of the refresh pair of a header.
RefreshValue(refresh_token) ==
    [kind |-> "uuid", alg |-> "-", sig |-> "-", payload |-> NoPayload,
     token |-> refresh_token]

\* What a client can put into the refresh pair: nothing (no pair), the empty
\* string, or a credential.
RefreshValues ==
    {NoneValue, EmptyString} \cup {RefreshValue(r) : r \in 1..(MaxRefresh + 1)}

\* The credential a refresh value carries, 0 when it carries none.
CredentialOf(refresh) == IF refresh.kind = "uuid" THEN refresh.token ELSE 0

\* GET /v1/prod/user/generate_access_token with the Authorization header
\* "Bearer access=<access>&refresh=<refresh>"; a pair the client leaves out
\* (NoneValue) is not in the header.
RefreshRequest(access, refresh) ==
    [path |-> <<"", "v1", "prod", "user", "generate_access_token">>,
     header |-> [bearer |-> TRUE,
                 pairs |-> (IF access = NoneValue THEN << >>
                            ELSE <<Pair(2, "access", access)>>)
                           \o (IF refresh = NoneValue THEN << >>
                               ELSE <<Pair(2, "refresh", refresh)>>)]]

\* The request goes through the middleware, which answers 401 itself or calls
\* the handler.  generate_token reads the refresh pair of the header, answers
\* 401 "No refresh token provided" when there is none, and hands the
\* credential to gen_access_token otherwise, whose outcome it returns (the
\* steps gen_access_token_query and gen_access_token_commit).  The middleware
\* admits a request to this path on the whitelist branch only, which reads
\* neither the clock nor a table, so dispatch and the first step of the
\* handler are one step.
generate_token(access, refresh) ==
    LET request == RefreshRequest(access, refresh)
        dispatch_out == dispatch(request, now)
        tokens == extract_token(request.header)
    IN  IF ~dispatch_out.admitted
        THEN /\ result' = Call("generate_token", FALSE, 0, CredentialOf(refresh),
                               EmptyString)
             /\ probe' = [fn |-> "generate_token", http_status |-> 401,
                          message |-> dispatch_out.message]
             /\ UNCHANGED <<now, users, refresh_tokens, user_workspace, workspaces,
                            issued_identity, revoked, calls>>
        ELSE IF tokens.refresh_token = NoneValue
        THEN /\ result' = Call("generate_token", FALSE, 0, 0, EmptyString)
             /\ probe' = [fn |-> "generate_token", http_status |-> 401,
                          message |-> "No refresh token provided"]
             /\ UNCHANGED <<now, users, refresh_tokens, user_workspace, workspaces,
                            issued_identity, revoked, calls>>
        ELSE gen_access_token_query("c1", tokens.refresh_token.token)

\* A client that logs in over SSO (which issues a credential and redeems it
\* once) and later asks for new session tokens, with the access token it has:
\* none, or a string of TokenStrings.
NextRefresh ==
    \/ Tick({0, SessionTTL})
    \/ user_login("a@x.edu", TRUE)
    \/ (Len(refresh_tokens) = 0 /\ gen_refresh_token(1, TRUE))
    \/ gen_access_token_query("c1", 1)
    \/ gen_access_token_commit("c1", TRUE)
    \/ \E args \in GeneratorInputs : JwtGenerator(args)
    \/ \E access \in {NoneValue} \cup TokenStrings :
       \E refresh \in RefreshValues :
            generate_token(access, refresh)

SpecRefresh == Init /\ [][NextRefresh]_vars

(* ------------------------ admin/AgentManager.py ------------------------ *)
\* Table ai_agents is a mapping from agent_id to the row; a field of a request
\* that is left out is None.
AgentIds == {"a1"}

NoneField == "None"

\* The status of a request that gives none (AgentUpdate.status is None); the
\* statuses are the integers of AgentStatus.
NoStatus == -1

\* the claims the agent handlers read from get_jwt
AgentCallers ==
    {[system_admin |-> TRUE, workspace_role |-> << >>],
     [system_admin |-> FALSE, workspace_role |-> [k \in {"w1"} |-> "teacher"]],
     [system_admin |-> FALSE, workspace_role |-> [k \in {"w2"} |-> "teacher"]],
     [system_admin |-> FALSE, workspace_role |-> [k \in {"w1"} |-> "student"]]}

\* the claims of a system admin
SystemAdminCaller == [system_admin |-> TRUE, workspace_role |-> << >>]

\* user_jwt_content["workspace_role"].get(key, None) for a string key
RoleOfCaller(caller, key) ==
    IF key \in DOMAIN caller.workspace_role THEN caller.workspace_role[key]
    ELSE NoneField

InitAgents ==
    /\ now = 0
    /\ users = << >>
    /\ refresh_tokens = << >>
    /\ user_workspace = {}
    /\ workspaces = {}
    /\ result = [op |-> "none", flip |-> 0, ok |-> FALSE, uid |-> 0, arg |-> 0,
                 token |-> EmptyString]
    /\ probe = [fn |-> "agents", agents |-> << >>,
                last |-> [op |-> "none", caller |-> NoneField,
                          agent_id |-> NoneField, workspace_id |-> NoneField]]
    /\ issued_identity = << >>
    /\ revoked = {}
    /\ calls = [id \in CallIds |-> IdleCall]

AgentCall(op, caller, agent_id, workspace_id) ==
    [op |-> op, caller |-> caller, agent_id |-> agent_id, workspace_id |-> workspace_id]

\* create_agent (POST /add_agent): a teacher of the workspace named in the
\* request, or a system admin, adds an agent to it; uuid4() is an identifier
\* not used before.
create_agent(caller, workspace_id, agent_status, db_ok) ==
    /\ probe.fn = "agents"
    /\ \E a \in AgentIds : a \notin DOMAIN probe.agents
    /\ LET new_agent_id == CHOOSE a \in AgentIds : a \notin DOMAIN probe.agents
           last == AgentCall("add_agent", caller, new_agent_id, workspace_id)
       IN  IF RoleOfCaller(caller, workspace_id) # "teacher" /\ ~caller.system_admin
           THEN /\ probe' = [probe EXCEPT !.last = last]
                /\ result' = Call("add_agent", FALSE, 0, 403, EmptyString)
           ELSE IF ~db_ok
           THEN /\ probe' = [probe EXCEPT !.last = last]
                /\ result' = Call("add_agent", FALSE, 0, 500, EmptyString)
           ELSE /\ probe' = [probe EXCEPT !.last = last,
                    !.agents = [a \in DOMAIN @ \cup {new_agent_id} |->
                        IF a = new_agent_id
                        THEN [workspace_id |-> workspace_id, agent_name |-> "tutor",
                              status |-> agent_status, updated_at |-> now]
                        ELSE @[a]]]
                /\ result' = Call("add_agent", TRUE, 0, 200, EmptyString)
    /\ UNCHANGED <<now, users, refresh_tokens, user_workspace, workspaces,
                   issued_identity, revoked, calls>>

\* delete_agent up to its second query (AgentManager.py:229-254): the role of
\* the caller is looked up for the workspace_id of the request, or, when the
\* request has none, under the workspace_id of the agent's row, a UUID object
\* that is no key of the claims mapping.  A request without workspace_id for
\* an unknown agent raises before the try block.  A row that is found stays
\* loaded in the session of the call (agent_to_delete).
delete_agent_query(id, caller, agent_id, workspace_id) ==
    LET last == AgentCall("delete_agent", caller, agent_id, workspace_id)
        role == IF workspace_id # NoneField THEN RoleOfCaller(caller, workspace_id)
                ELSE NoneField
        answer(status) ==
            /\ probe' = [probe EXCEPT !.last = last]
            /\ result' = Call("delete_agent", FALSE, 0, status, EmptyString)
            /\ UNCHANGED calls
    IN  /\ probe.fn = "agents"
        /\ calls[id] = IdleCall
        /\ IF workspace_id = NoneField /\ agent_id \notin DOMAIN probe.agents
                THEN answer(500)
           ELSE IF role # "teacher" /\ ~caller.system_admin
                THEN answer(403)
           ELSE IF agent_id \notin DOMAIN probe.agents
                THEN answer(404)
           ELSE /\ calls' = [calls EXCEPT ![id] =
                        [pc |-> "delete_agent", last |-> last,
                         agent_to_delete |-> probe.agents[agent_id]]]
                /\ UNCHANGED <<probe, result>>
        /\ UNCHANGED <<now, users, refresh_tokens, user_workspace, workspaces,
                       issued_identity, revoked>>

\* delete_agent, the write and the commit (AgentManager.py:255-275): status =
\* DELETED on the loaded object; the UPDATE of the commit sets the columns
\* whose value is not the loaded one.
delete_agent_commit(id, db_ok) ==
    LET call == calls[id] IN
    /\ probe.fn = "agents"
    /\ call.pc = "delete_agent"
    /\ IF ~db_ok
       THEN /\ probe' = [probe EXCEPT !.last = call.last]
            /\ result' = Call("delete_agent", FALSE, 0, 500, EmptyString)
       ELSE /\ probe' = [probe EXCEPT !.last = call.last,
                    !.agents[call.last.agent_id].status =
                        IF call.agent_to_delete.status # 2 THEN 2 ELSE @]
            /\ result' = Call("delete_agent", TRUE, 0, 200, EmptyString)
    /\ calls' = [calls EXCEPT ![id] = IdleCall]
    /\ UNCHANGED <<now, users, refresh_tokens, user_workspace, workspaces,
                   issued_identity, revoked>>

\* edit_agent (POST /update_agent) up to its query (AgentManager.py:296-316):
\* the role of the caller is looked up for the workspace_id of the request
\* ("All" when it has none); a row that is found stays loaded in the session
\* of the call (agent_to_update).
edit_agent_query(id, caller, agent_id, workspace_id, agent_name, agent_status) ==
    LET last == AgentCall("update_agent", caller, agent_id, workspace_id)
        key == IF workspace_id # NoneField THEN workspace_id ELSE "All"
        answer(status) ==
            /\ probe' = [probe EXCEPT !.last = last]
            /\ result' = Call("update_agent", FALSE, 0, status, EmptyString)
            /\ UNCHANGED calls
    IN  /\ probe.fn = "agents"
        /\ calls[id] = IdleCall
        /\ IF RoleOfCaller(caller, key) # "teacher" /\ ~caller.system_admin
                THEN answer(403)
           ELSE IF agent_id \notin DOMAIN probe.agents
                THEN answer(404)
           ELSE /\ calls' = [calls EXCEPT ![id] =
                        [pc |-> "edit_agent", last |-> last,
                         agent_name |-> agent_name, agent_status |-> agent_status,
                         agent_to_update |-> probe.agents[agent_id]]]
                /\ UNCHANGED <<probe, result>>
        /\ UNCHANGED <<now, users, refresh_tokens, user_workspace, workspaces,
                       issued_identity, revoked>>

\* edit_agent, the writes and the commit (AgentManager.py:318-382): the fields
\* the request gives are set on the loaded object, workspace_id and status
\* among them (status 2 is a deleted agent), and updated_at is set from the
\* clock.  The UPDATE of the commit sets the columns whose value is not the
\* loaded one and leaves the others as other calls have committed them; the
\* workspace_id of the request is a str and never equal to the loaded UUID.
edit_agent_commit(id, db_ok) ==
    LET call == calls[id] IN
    /\ probe.fn = "agents"
    /\ call.pc = "edit_agent"
    /\ IF ~db_ok
       THEN /\ probe' = [probe EXCEPT !.last = call.last]
            /\ result' = Call("update_agent", FALSE, 0, 500, EmptyString)
       ELSE /\ probe' = [probe EXCEPT !.last = call.last,
                    !.agents[call.last.agent_id] =
                        [workspace_id |-> IF call.last.workspace_id # NoneField
                                          THEN call.last.workspace_id
                                          ELSE @.workspace_id,
                         agent_name |->
                            IF /\ call.agent_name # NoneField
                               /\ call.agent_name # call.agent_to_update.agent_name
                            THEN call.agent_name ELSE @.agent_name,
                         status |->
                            IF /\ call.agent_status # NoStatus
                               /\ call.agent_status # call.agent_to_update.status
                            THEN call.agent_status ELSE @.status,
                         updated_at |-> now]]
            /\ result' = Call("update_agent", TRUE, 0, 200, EmptyString)
    /\ calls' = [calls EXCEPT ![id] = IdleCall]
    /\ UNCHANGED <<now, users, refresh_tokens, user_workspace, workspaces,
                   issued_identity, revoked>>

\* Two sessions: call c1 runs delete_agent and edit_agent with any request,
\* and while it is between query and commit a system admin (call c2) edits
\* agents and agents are created.
NextAgents ==
    \/ \E caller \in AgentCallers, workspace_id \in Workspaces,
          agent_status \in {0, 1}, db_ok \in BOOLEAN :
            create_agent(caller, workspace_id, agent_status, db_ok)
    \/ \E caller \in AgentCallers, agent_id \in AgentIds,
          workspace_id \in Workspaces \cup {NoneField} :
            delete_agent_query("c1", caller, agent_id, workspace_id)
    \/ \E db_ok \in BOOLEAN : delete_agent_commit("c1", db_ok)
    \/ \E caller \in AgentCallers, agent_id \in AgentIds,
          workspace_id \in Workspaces \cup {NoneField},
          agent_name \in {NoneField, "renamed"},
          agent_status \in {NoStatus, 0, 1, 2} :
            edit_agent_query("c1", caller, agent_id, workspace_id, agent_name,
                             agent_status)
    \/ \E agent_id \in AgentIds, agent_name \in {NoneField, "renamed"},
          agent_status \in {NoStatus, 0} :
            edit_agent_query("c2", SystemAdminCaller, agent_id, NoneField,
                             agent_name, agent_status)
    \/ \E id \in CallIds, db_ok \in BOOLEAN : edit_agent_commit(id, db_ok)

SpecAgents == InitAgents /\ [][NextAgents]_vars

(* ======================== the refresh-token store ====================== *)
\* The row of the credential with the given token value (0 when there is none).
RowOf(token) ==
    IF \E i \in 1..Len(refresh_tokens) : refresh_tokens[i].token = token
    THEN CHOOSE i \in 1..Len(refresh_tokens) : refresh_tokens[i].token = token
    ELSE 0

\* A step that is a call of op.
IsCall(op) == result'.flip # result.flip /\ result'.op = op

\* A step in which the call id of gen_access_token returns, having found a row
\* for the value it was handed.
Returns(id) == calls[id].pc = "gen_access_token" /\ calls'[id] = IdleCall

\* A step in which a call of gen_access_token returns because no row has the
\* value it was handed.
NotFound == IsCall("gen_access_token") /\ calls' = calls

\* C1: a call of gen_access_token with a refresh credential of u that was
\* issued before a successful user_logout_all_devices(u) (it was stored when
\* the logout ran its query) returns the failure indicator and no session
\* token, for every such credential and however many were outstanding.  A
\* credential committed while the logout is between its query and its commit
\* is not selected; it is not in revoked.
C1_RevokedCredentialFails ==
    [][\A id \in CallIds :
        (Returns(id) /\ calls[id].refresh_token \in revoked)
            => (/\ ~result'.ok
                /\ result'.token = EmptyString
                /\ result'.arg = calls[id].refresh_token)]_vars

\* Two credentials were outstanding at a logout, and the redemption of the
\* second one, attempted before its natural expiry, has failed.
C1_Witness ==
    /\ result.op = "gen_access_token"
    /\ ~result.ok
    /\ result.arg = 2
    /\ revoked = {1, 2}
    /\ now < RefreshTTL

\* C2: gen_access_token with a refresh value that matches no stored credential,
\* or whose credential has expire_at not later than the current time, returns
\* the failure indicator, issues no session token and leaves the store
\* unchanged (issued_token_count included).
C2_InvalidCredentialRejected ==
    [][/\ NotFound =>
            /\ RowOf(result'.arg) = 0
            /\ ~result'.ok
            /\ result'.token = EmptyString
            /\ refresh_tokens' = refresh_tokens
            /\ users' = users
       /\ \A id \in CallIds :
            (/\ Returns(id)
             /\ \/ calls[id].refresh_token_obj.expire_at <= now
                \/ refresh_tokens[calls[id].obj].expire_at <= now)
                => (/\ ~result'.ok
                    /\ result'.token = EmptyString
                    /\ refresh_tokens' = refresh_tokens
                    /\ users' = users)]_vars

\* A redemption of a credential that had expired by itself (never revoked) has
\* been refused, at the very instant of its expiry.
C2_Witness ==
    /\ result.op = "gen_access_token"
    /\ ~result.ok
    /\ RowOf(result.arg) # 0
    /\ result.arg \notin revoked
    /\ refresh_tokens[RowOf(result.arg)].expire_at = now

\* C4 (as claimed): after user_login of a new e-mail and gen_refresh_token for
\* the user it created, gen_access_token with the value returned succeeds (the
\* credential not having expired in between) and the user_id in the claims of
\* the session token is the user_id of that identity, the owner of the
\* credential.
C4_TokenIsForTheOwner ==
    [][(/\ result.op = "gen_refresh_token"
        /\ result.ok
        /\ IsCall("gen_access_token")
        /\ result'.arg = result.arg
        /\ now' < refresh_tokens[RowOf(result.arg)].expire_at)
       => (/\ result'.ok
           /\ result'.token.kind = "jwt"
           /\ JsonLoads(result'.token.payload).user_id = IntToStr(result.uid)
           /\ StrToInt(JsonLoads(result'.token.payload).user_id) = result.uid
           /\ JsonLoads(result'.token.payload).email = users[result.uid].email
           /\ refresh_tokens[RowOf(result.arg)].user_id = result.uid)]_vars

(* ========================= identity at redemption ====================== *)
\* The identity the owner of the credential has in the store.
StoredIdentity(row) ==
    [workspace_role |-> users[refresh_tokens[row].user_id].workspace_role,
     system_admin |-> users[refresh_tokens[row].user_id].system_admin,
     workspace_admin |-> users[refresh_tokens[row].user_id].workspace_admin]

\* C3 (as claimed): gen_access_token with an unexpired credential whose
\* owner's workspace-role mapping or admin flags have changed since
\* gen_refresh_token returns a session token, and its claims carry the
\* workspace-role mapping and the admin flags the owner has in the store at
\* the redemption, not those at the issue of the credential.
C3_ClaimsAreFresh ==
    [][(/\ IsCall("gen_access_token")
        /\ RowOf(result'.arg) # 0
        /\ refresh_tokens[RowOf(result'.arg)].expire_at > now'
        /\ StoredIdentity(RowOf(result'.arg)) # issued_identity[RowOf(result'.arg)])
        => /\ result'.ok
           /\ result'.token.kind = "jwt"
           /\ LET claims == JsonLoads(result'.token.payload)
                  stored == StoredIdentity(RowOf(result'.arg))
              IN  /\ claims.workspace_role = stored.workspace_role
                  /\ claims.system_admin = stored.system_admin
                  /\ "workspace_admin" \in DOMAIN claims
                  /\ claims.workspace_admin = stored.workspace_admin]_vars

(* ============================== the codec ============================== *)
\* The claims of the token the last call of jwt_generator returned.
GeneratedClaims == JsonLoads(result.token.payload)

\* C5 (as claimed): every session token jwt_generator returns has exp - iat =
\* 30 minutes exactly, also when the clock advances during the issue.
C5_ExactTimeToLive ==
    (result.op = "jwt_generator")
        => GeneratedClaims.exp - GeneratedClaims.iat = SessionTTLMinutes * 60

\* The claims the last call of jwt_generator was to issue: its arguments, each
\* under its name, iat the first clock reading of the call and exp the second
\* one plus 30 minutes, the two times as the NumericDate (whole seconds) a
\* token carries.
IssuedClaims ==
    [user_id |-> result.arg.args.user_id,
     email |-> result.arg.args.email,
     first_name |-> result.arg.args.first_name,
     last_name |-> result.arg.args.last_name,
     student_id |-> result.arg.args.student_id,
     workspace_role |-> result.arg.args.workspace_role,
     system_admin |-> result.arg.args.system_admin,
     iat |-> result.arg.t1 \div TicksPerSec,
     exp |-> (result.arg.t2 + SessionTTLMinutes * 60 * TicksPerSec) \div TicksPerSec]

\* parse_token has been applied to the token the last call of jwt_generator
\* returned.
ParsedMinted ==
    /\ probe.fn = "parse_token"
    /\ result.op = "jwt_generator"
    /\ probe.token = result.token

\* parse_token has been applied to a token with a valid RS256 signature.
ParsedSigned ==
    /\ probe.fn = "parse_token"
    /\ probe.token.kind = "jwt"
    /\ probe.token.alg = "RS256"
    /\ probe.token.sig = "valid"

\* C6: parse_token of a token jwt_generator returned, before its expiry, is a
\* success whose data are the issued claims: nothing added, dropped or changed.
C6_RoundTrip ==
    (ParsedMinted /\ probe.at < IssuedClaims.exp * TicksPerSec)
        => /\ ~probe.out.raised
           /\ probe.out.success
           /\ probe.out.status_code = 200
           /\ probe.out.data = IssuedClaims
           /\ DOMAIN probe.out.data =
                {"user_id", "email", "first_name", "last_name", "student_id",
                 "workspace_role", "system_admin", "iat", "exp"}

\* The token of a user with two workspaces has been parsed with success some
\* time after it was issued.
C6_Witness ==
    /\ ParsedMinted
    /\ probe.out.success
    /\ probe.out.data.first_name = "Ada"
    /\ probe.out.data.last_name = "A"
    /\ DOMAIN probe.out.data.workspace_role = {"w1", "w2"}
    /\ probe.out.data.workspace_role["w2"] = "pending"
    /\ probe.at > result.arg.t2

\* C7: parse_token of a validly signed token whose exp is not later than the
\* time of the parse is TokenExpired (401001), never a success.
C7_ExpiredIsRejected ==
    (ParsedSigned /\ JsonLoads(probe.token.payload).exp * TicksPerSec <= probe.at)
        => /\ ~probe.out.raised
           /\ ~probe.out.success
           /\ probe.out.status_code = 401001
           /\ probe.out.data = NoPayload

\* A token jwt_generator returned has been parsed at the very instant of its
\* exp.
C7_Witness ==
    /\ ParsedMinted
    /\ ParsedSigned
    /\ IssuedClaims.exp * TicksPerSec = probe.at
    /\ probe.out.status_code = 401001

\* C8: parse_token is total: it raises nothing, and its result is TokenMissing
\* (401000) for the empty string, TokenExpired (401001) for a validly signed
\* token past its expiry, TokenInvalid (401002) for any malformed or wrongly
\* signed string, and a success carrying the claims otherwise.
C8_ParseTokenIsTotal ==
    probe.fn = "parse_token" =>
        /\ ~probe.out.raised
        /\ probe.out.status_code \in {200, 401000, 401001, 401002}
        /\ probe.out.success <=> probe.out.status_code = 200
        /\ probe.out.success <=> probe.out.data # NoPayload
        /\ probe.out.status_code = 401000 <=> probe.token = EmptyString
        /\ probe.out.status_code = 401001 <=>
                (/\ ParsedSigned
                 /\ JsonLoads(probe.token.payload).exp * TicksPerSec <= probe.at)
        /\ probe.out.status_code = 401002 <=>
                (probe.token # EmptyString /\ ~ParsedSigned)
        /\ (probe.out.success /\ ParsedMinted) => probe.out.data = IssuedClaims

\* A token jwt_generator returned, signed again with another algorithm, has
\* been answered TokenInvalid.
C8_Witness ==
    /\ probe.fn = "parse_token"
    /\ result.op = "jwt_generator"
    /\ probe.token = WrongAlg(result.token)
    /\ ~probe.out.raised
    /\ probe.out.status_code = 401002

(* =============================== the gate ============================== *)
\* dispatch has answered a request for a path that is not on the whitelist.
Gated ==
    /\ probe.fn = "dispatch"
    /\ extract_actual_path(probe.request.path) \notin whitelist

\* The request carries no access token: no Authorization header, no access
\* pair in it, or an access pair without a value.
AccessTokenMissing ==
    \/ ~probe.request.header.bearer
    \/ \A i \in 1..Len(probe.request.header.pairs) :
            \/ probe.request.header.pairs[i].key # "access"
            \/ probe.request.header.pairs[i].fields < 2
            \/ /\ probe.request.header.pairs[i].fields = 2
               /\ probe.request.header.pairs[i].value = EmptyString

\* C9 (as claimed): a request to a path off the whitelist whose access token
\* is missing, expired or invalid is answered HTTP 401 with the status_code of
\* the cause in the body: 401000 missing, 401001 expired, 401002 invalid.
C9_RejectionNamesItsCause ==
    (Gated /\ AccessTokenMissing)
        => /\ ~probe.out.admitted
           /\ probe.out.http_status = 401
           /\ probe.out.status_code = 401000

(* =========================== the role extractor ======================== *)
\* C10: extract_role of absent claims is all flags false; of present claims,
\* admin is the system_admin claim, teacher is true exactly when some value of
\* the workspace-role mapping is "teacher", and student is true.
C10_ExtractRoleRule ==
    (probe.fn = "extract_role" /\ probe.done) =>
        /\ DOMAIN probe.output = {"admin", "teacher", "student"}
        /\ probe.input = NoPayload =>
                (~probe.output.admin /\ ~probe.output.teacher
                    /\ ~probe.output.student)
        /\ probe.input # NoPayload =>
                /\ probe.output.admin = probe.input.system_admin
                /\ probe.output.teacher =
                        (\E w \in DOMAIN probe.input.workspace_role :
                            probe.input.workspace_role[w] = "teacher")
                /\ probe.output.student

\* extract_role has been applied to the claims of a user who is teacher in one
\* workspace, pending in the other, student in none and no system admin.
C10_Witness ==
    /\ probe.fn = "extract_role"
    /\ probe.done
    /\ probe.input # NoPayload
    /\ ~probe.input.system_admin
    /\ DOMAIN probe.input.workspace_role = {"w1", "w2"}
    /\ probe.input.workspace_role["w1"] = "pending"
    /\ probe.input.workspace_role["w2"] = "teacher"
    /\ probe.output = [admin |-> FALSE, teacher |-> TRUE, student |-> TRUE]

\* C11 (as claimed): the role set extract_role returns has a fourth flag,
\* workspace_admin, equal to the workspace_admin claim, and with it a user
\* whose only privilege is workspace_admin is granted the entries of the
\* access matrix that allow workspace_admin.
C11_WorkspaceAdminFlag ==
    (probe.fn = "extract_role" /\ probe.done /\ probe.input # NoPayload) =>
        /\ "workspace_admin" \in DOMAIN probe.output
        /\ probe.output.workspace_admin = probe.input.workspace_admin
        /\ (probe.input.workspace_admin /\ ~probe.input.system_admin) =>
                has_access(endpoint_access_map, probe.output,
                           <<"", "workspace", "set_workspace_admin_role">>)

(* ============================ the path matcher ========================= *)
\* The entry of the access matrix with the given pattern.
RuleFor(pattern) ==
    endpoint_access_map[CHOOSE i \in 1..Len(endpoint_access_map) :
                            endpoint_access_map[i].pattern = pattern]

\* Segment-wise matching: as many segments, and every segment of the pattern
\* that is no placeholder equal to the segment of the path.
SegmentWise(pattern, path) ==
    /\ Len(pattern) = Len(path)
    /\ \A i \in 1..Len(pattern) :
        pattern[i] \in {"{agent_id}", "{thread_id}", "{workspace}"}
            \/ pattern[i] = path[i]

\* has_access has decided a path that is no literal key of the matrix.
DecidedTemplated ==
    /\ probe.fn = "path"
    /\ probe.stage = "done"
    /\ \A i \in 1..Len(endpoint_access_map) :
            endpoint_access_map[i].pattern # probe.path

\* C12: for a path that is no literal key, has_access grants exactly when the
\* user holds a role allowed by a templated entry that matches the path
\* segment-wise; /agents/agent/123 and /agents/agent/abc-def are decided by the
\* entry /agents/agent/{agent_id}, /agents/agent/123/extra by none.
C12_SegmentWiseMatching ==
    DecidedTemplated =>
        /\ probe.output =
            (\E i \in 1..Len(endpoint_access_map) :
                /\ \E k \in 1..Len(endpoint_access_map[i].pattern) :
                        endpoint_access_map[i].pattern[k]
                            \in {"{agent_id}", "{thread_id}", "{workspace}"}
                /\ SegmentWise(endpoint_access_map[i].pattern, probe.path)
                /\ RoleAllowed(endpoint_access_map[i].roles, probe.user_access))
        /\ probe.path \in {<<"", "agents", "agent", "123">>,
                           <<"", "agents", "agent", "abc-def">>} =>
                probe.output =
                    RoleAllowed(RuleFor(<<"", "agents", "agent", "{agent_id}">>).roles,
                                probe.user_access)
        /\ probe.path \in {<<"", "agents", "agent", "123", "extra">>,
                           <<"", "agents", "agent">>,
                           <<"", "nowhere", "agent", "123">>} => ~probe.output

\* A user who is student only has been granted /agents/agent/abc-def.
C12_Witness ==
    /\ DecidedTemplated
    /\ probe.path = <<"", "agents", "agent", "abc-def">>
    /\ probe.user_access = [admin |-> FALSE, teacher |-> FALSE, student |-> TRUE]
    /\ probe.output

\* C13: extract_actual_path of /<version>/<env>/<group>/<rest> is /<rest>,
\* whatever the three segments of the prefix are, so that the decision of
\* has_access is that for /<rest> under all four prefixes.
C13_PrefixStripped ==
    (probe.fn = "path" /\ probe.stage # "request") =>
        /\ probe.path = (IF probe.rest = << >> THEN <<"", "">>
                         ELSE <<"">> \o probe.rest)
        /\ probe.stage = "done" =>
                probe.output = has_access(endpoint_access_map, probe.user_access,
                                          <<"">> \o probe.rest)

\* /v1/dev/admin/agents/add_agent has been reduced to /agents/add_agent and
\* granted to a teacher.
C13_Witness ==
    /\ probe.fn = "path"
    /\ probe.stage = "done"
    /\ probe.prefix = <<"", "v1", "dev", "admin">>
    /\ probe.path = <<"", "agents", "add_agent">>
    /\ probe.user_access.teacher
    /\ probe.output

(* ====================== the gate: admission by role ==================== *)
\* dispatch has answered a request off the whitelist whose access token
\* verifies at the time of the request.
GatedVerified ==
    /\ Gated
    /\ ~extract_token(probe.request.header).raised
    /\ extract_token(probe.request.header).access_token # NoneValue
    /\ parse_token(extract_token(probe.request.header).access_token,
                   probe.at).success

\* The claims of the access token of the request.
RequestClaims ==
    parse_token(extract_token(probe.request.header).access_token, probe.at).data

\* C14 (as claimed): a request off the whitelist whose access token verifies
\* goes to the next stage exactly when a role the claims give the user is
\* allowed by the entry of the access matrix that matches the path; admitted,
\* it carries the decoded claims as user_jwt_content; otherwise the answer is
\* a rejection.
C14_AdmittedIffRoleAllowed ==
    GatedVerified =>
        /\ probe.out.admitted =
                has_access(endpoint_access_map, extract_role(RequestClaims),
                           extract_actual_path(probe.request.path))
        /\ probe.out.admitted => probe.out.user_jwt_content = RequestClaims
        /\ ~probe.out.admitted =>
                (~probe.out.raised /\ probe.out.http_status \in {401, 403})

(* ======================== the Authorization header ===================== *)
\* The reading of the header claim C15 states, against which extract_token is
\* compared: every pair is split on its first "=", so a pair with more than
\* one "=" has a key and a value too (its value is all that follows the first
\* "="); of the pairs with a key the last one decides, and an empty value is
\* None.
FirstEqualsValue(header, key) ==
    LET with_key == {i \in 1..Len(header.pairs) :
                        header.pairs[i].key = key /\ header.pairs[i].fields >= 2}
        last == CHOOSE i \in with_key : \A j \in with_key : j <= i
    IN  IF with_key = {} THEN NoneValue
        ELSE IF header.pairs[last].value.kind = "empty" THEN NoneValue
        ELSE header.pairs[last].value

\* C15 (as claimed): extract_token never raises, and for a header
\* "Bearer <pairs>" it returns for access and for refresh, independently, the
\* value after the first "=" of the pair with that key (also when the value
\* contains "="), None when the pair is missing or empty.
C15_ExtractTokenTotal ==
    (probe.fn = "dispatch" /\ probe.request.header.bearer) =>
        /\ ~extract_token(probe.request.header).raised
        /\ extract_token(probe.request.header).access_token =
                FirstEqualsValue(probe.request.header, "access")
        /\ extract_token(probe.request.header).refresh_token =
                FirstEqualsValue(probe.request.header, "refresh")

(* ========================== requests in flight ========================= *)
\* The access token the request id carries: the value of the access pair of
\* its header, None without header and for an empty value.
OwnToken(id) ==
    LET header == probe.slots[id].request.header IN
    IF header.bearer /\ Len(header.pairs) > 0 /\ header.pairs[1].key = "access"
        /\ header.pairs[1].value # EmptyString
    THEN header.pairs[1].value
    ELSE NoneValue

\* The token of the request id has a valid RS256 signature.
OwnTokenSigned(id) ==
    /\ OwnToken(id).kind = "jwt"
    /\ OwnToken(id).alg = "RS256"
    /\ OwnToken(id).sig = "valid"

\* The answer to the request id is explained by the request id alone: it went
\* to the next stage without claims when its path is on the whitelist; off the
\* whitelist it was answered 401001 exactly when its own token is validly
\* signed and had expired when the call read the clock, 401002 exactly when
\* its own token is not validly signed, and the generic 401 when it carries no
\* token; the claims it carries forward, if any, are those of its own token.
OwnAnswer(id) ==
    LET slot == probe.slots[id]
        listed == (<<"">> \o SubSeq(slot.request.path, 5, Len(slot.request.path)))
                        \in whitelist
    IN  slot.pc = "answered" =>
        /\ ~slot.out.raised
        /\ listed => (slot.out.admitted /\ slot.out.user_jwt_content = NoPayload)
        /\ ~listed =>
            /\ slot.out.admitted =>
                    (OwnTokenSigned(id) /\ slot.out.user_jwt_content # NoPayload)
            /\ slot.out.status_code = 401001 <=>
                    (/\ OwnTokenSigned(id)
                     /\ JsonLoads(OwnToken(id).payload).exp * TicksPerSec <= slot.at)
            /\ slot.out.status_code = 401002 <=>
                    (OwnToken(id) # NoneValue /\ ~OwnTokenSigned(id))
            /\ OwnToken(id) = NoneValue => slot.out = Unauthorized
        /\ slot.out.user_jwt_content # NoPayload =>
                slot.out.user_jwt_content = JsonLoads(OwnToken(id).payload)

C17_NeverRemovedNeverExtended ==
    [][/\ Len(refresh_tokens') >= Len(refresh_tokens)
       /\ \A i \in 1..Len(refresh_tokens) :
            /\ refresh_tokens'[i].token = refresh_tokens[i].token
            /\ refresh_tokens'[i].user_id = refresh_tokens[i].user_id
            /\ refresh_tokens'[i].expire_at <= refresh_tokens[i].expire_at]_vars

\* A step in which the call id of user_logout_all_devices runs its query.
LogoutQueried(id) ==
    calls[id].pc = "idle" /\ calls'[id].pc = "user_logout_all_devices"

\* The last call that returned is a successful logout of the user, and no
\* credential has been issued to the user since that logout ran its query.
JustLoggedOut(user_id) ==
    /\ result.op = "user_logout_all_devices"
    /\ result.ok
    /\ result.uid = user_id
    /\ \A i \in 1..Len(refresh_tokens) :
            refresh_tokens[i].user_id = user_id => refresh_tokens[i].token \in revoked

\* C18: a call of user_logout_all_devices for a user right after a successful
\* call for the same user finds no credential to stamp, succeeds and changes
\* no credential; no call selects a credential that has already expired or
\* that belongs to another user, and no call changes a credential it has not
\* selected.
C18_LogoutIsIdempotent ==
    [][/\ \A id \in CallIds : LogoutQueried(id) =>
            /\ JustLoggedOut(calls'[id].user_id) => calls'[id].tokens = {}
            /\ \A i \in calls'[id].tokens :
                /\ refresh_tokens[i].user_id = calls'[id].user_id
                /\ refresh_tokens[i].expire_at > now
       /\ IsCall("user_logout_all_devices") =>
            /\ Len(refresh_tokens') = Len(refresh_tokens)
            /\ \A i \in 1..Len(refresh_tokens) :
                refresh_tokens'[i] # refresh_tokens[i] =>
                    \E id \in CallIds :
                        /\ calls[id].pc = "user_logout_all_devices"
                        /\ calls'[id] = IdleCall
                        /\ i \in calls[id].tokens
            /\ \A id \in CallIds :
                (/\ calls[id].pc = "user_logout_all_devices"
                 /\ calls'[id] = IdleCall
                 /\ calls[id].tokens = {})
                    => (result'.ok /\ refresh_tokens' = refresh_tokens)]_vars

\* Right after a successful logout of a user whose credential it revoked, a
\* second logout of the same user has run its query and selected nothing,
\* while another user holds a credential that has not expired.
C18_Witness ==
    \E id \in CallIds :
        /\ calls[id].pc = "user_logout_all_devices"
        /\ JustLoggedOut(calls[id].user_id)
        /\ calls[id].tokens = {}
        /\ \E i \in 1..Len(refresh_tokens) :
            /\ refresh_tokens[i].user_id = calls[id].user_id
            /\ refresh_tokens[i].token \in revoked
        /\ \E i \in 1..Len(refresh_tokens) :
            /\ refresh_tokens[i].user_id # calls[id].user_id
            /\ refresh_tokens[i].expire_at > now

(* ========================= failures of the database =================== *)
\* C19 (as claimed): gen_refresh_token either persists exactly one new
\* credential of the given user (a token value no other row has, expire_at
\* the creation time of the row plus 15 days, issued_token_count 0) and
\* returns that value, or, when the database fails, persists nothing and
\* returns the failure indicator; it touches no other row and no user.
C19_RefreshIssueIsAtomic ==
    [][IsCall("gen_refresh_token") =>
        /\ users' = users
        /\ \/ /\ result'.ok
              /\ Len(refresh_tokens') = Len(refresh_tokens) + 1
              /\ SubSeq(refresh_tokens', 1, Len(refresh_tokens)) = refresh_tokens
              /\ LET row == refresh_tokens'[Len(refresh_tokens')] IN
                    /\ row.user_id = result'.uid
                    /\ row.user_id \in 1..Len(users)
                    /\ row.token = result'.arg
                    /\ \A i \in 1..Len(refresh_tokens) :
                            refresh_tokens[i].token # row.token
                    /\ row.issued_token_count = 0
                    /\ row.expire_at = row.created_at + RefreshTTL
           \/ /\ ~result'.ok
              /\ result'.arg = 0
              /\ refresh_tokens' = refresh_tokens]_vars

(* ============================ racing logins ============================ *)
\* C20 (as claimed): there is one row per e-mail, created by the first login
\* without admin flags and with an empty workspace-role mapping, and every
\* login with that e-mail, also one that races another, returns the user_id
\* of that row.
C20_OneIdentityPerEmail ==
    /\ \A i, j \in 1..Len(users) : users[i].email = users[j].email => i = j
    /\ \A i \in 1..Len(users) :
        /\ users[i].workspace_role = << >>
        /\ ~users[i].system_admin
        /\ ~users[i].workspace_admin
    /\ (result.op = "user_login") =>
            (result.ok /\ users[result.uid].email = result.arg)
    /\ probe.fn = "logins" =>
        \A id \in LoginCalls :
            probe.logins[id].pc = "returned" =>
                /\ probe.logins[id].ok
                /\ probe.logins[id].user_id \in 1..Len(users)
                /\ users[probe.logins[id].user_id].email = probe.logins[id].email

(* ========================= overlapping patterns ======================== *)
\* The entries of the map of the probe that match its path segment-wise, by
\* their position in the map.
MatchingEntries ==
    {i \in 1..Len(probe.access_map) :
        SegmentWise(probe.access_map[i].pattern, probe.path)}

\* C21 (as claimed): when templated patterns of the access map match the
\* path, has_access decides by the first of them in the order of the map
\* alone: access is denied when that entry allows none of the user's roles,
\* also when a later matching entry would allow one.
C21_FirstMatchDecides ==
    (probe.fn = "has_access" /\ probe.done /\ MatchingEntries # {}) =>
        probe.output =
            RoleAllowed(probe.access_map[CHOOSE i \in MatchingEntries :
                            \A j \in MatchingEntries : i <= j].roles,
                        probe.user_access)

(* =========================== racing redemptions ======================== *)
\* C22: under any interleaving of the calls of gen_access_token, the
\* issued_token_count of every credential is the number of the calls on it
\* that returned a session token: it starts at 0, every call that returns a
\* session token raises it by one, and no other step changes it (a failed
\* redemption included); it never decreases.
C22_CountIsTokensIssued ==
    [][/\ (IsCall("gen_access_token") /\ result'.ok) =>
            refresh_tokens'[RowOf(result'.arg)].issued_token_count =
                refresh_tokens[RowOf(result'.arg)].issued_token_count + 1
       /\ ~(IsCall("gen_access_token") /\ result'.ok) =>
            \A i \in 1..Len(refresh_tokens) :
                refresh_tokens'[i].issued_token_count =
                    refresh_tokens[i].issued_token_count
       /\ Len(refresh_tokens') > Len(refresh_tokens) =>
            refresh_tokens'[Len(refresh_tokens')].issued_token_count = 0]_vars

\* Two calls of gen_access_token for one credential overlapped: one has
\* returned the failure indicator while the other held the row loaded, and
\* the count of the credential is 0, the number of session tokens returned.
C22_Witness ==
    /\ result.op = "gen_access_token"
    /\ ~result.ok
    /\ result.overlapped
    /\ RowOf(result.arg) # 0
    /\ refresh_tokens[RowOf(result.arg)].expire_at > now
    /\ refresh_tokens[RowOf(result.arg)].issued_token_count = 0
    /\ \E id \in CallIds :
        /\ calls[id].pc = "gen_access_token"
        /\ calls[id].refresh_token = result.arg

(* ------------------------------- C23 ----------------------------------- *)
\* the role the membership table records for a user in a workspace
TableRole(user_id, workspace_id) ==
    IF MembershipRows(user_id, workspace_id) = {} THEN "None"
    ELSE (CHOOSE row \in MembershipRows(user_id, workspace_id) : TRUE).role

\* the role the user's workspace_role mapping records for a workspace
MappingRole(user_id, workspace_id) ==
    IF workspace_id \in DOMAIN users[user_id].workspace_role
    THEN users[user_id].workspace_role[workspace_id] ELSE "None"

\* the workspace exists and its status is ACTIVE
IsActive(workspace_id) ==
    \E w \in workspaces : w.workspace_id = workspace_id /\ w.status = ACTIVE

\* C23: when a membership-changing operation has returned, with success or
\* with an error, the workspace_role mapping of the affected user and the
\* membership table record the same role for every active workspace, or
\* neither records one.
C23_MappingAgreesWithTable ==
    [][(/\ result'.flip # result.flip
        /\ result'.op \in {"create_workspace", "student_join_workspace",
                            "delete_user_from_workspace", "set_user_role_with_user_id"})
        => \A user_id \in {result'.uid} \cap (1..Len(users)) :
           \A workspace_id \in Workspaces :
                (IsActive(workspace_id) =>
                    TableRole(user_id, workspace_id) = MappingRole(user_id, workspace_id))']_vars

DecidedUnmatched ==
    /\ probe.fn = "path"
    /\ probe.stage = "done"
    /\ \A i \in 1..Len(endpoint_access_map) :
            ~SegmentWise(endpoint_access_map[i].pattern, probe.path)

\* C25: deny by default: a path off the whitelist that matches no key of the
\* access matrix is refused by has_access for every role set, the system
\* admin's included.
C25_DenyByDefault ==
    DecidedUnmatched => ~probe.output

\* /nowhere/agent/123 has been refused to a system admin.
C25_Witness ==
    /\ DecidedUnmatched
    /\ probe.path = <<"", "nowhere", "agent", "123">>
    /\ probe.path \notin whitelist
    /\ probe.user_access.admin
    /\ ~probe.output

(* ------------------------------- C26 ----------------------------------- *)
\* C26 (as claimed): a request that carries an unexpired session token as
\* gen_access_token mints it (a token of jwt_generator), to a path whose entry
\* of the access matrix allows student, is admitted by the gate: the claims
\* jwt_generator writes are enough for the gate to derive the student role.
C26_MintedTokenAdmitted ==
    (/\ GatedVerified
     /\ extract_actual_path(probe.request.path) = <<"", "agent", "42">>
     /\ RuleFor(<<"", "agent", "{agent_id}">>).roles.student)
        => /\ probe.out.admitted
           /\ extract_role(parse_jwt(RequestClaims)).student

(* ------------------------------- C27 ----------------------------------- *)
\* C27 (as claimed): the role set extract_role gives for claims whose
\* system_admin is true is allowed on every path whose entry of the access
\* matrix sets system_admin, /ai4edu_testing and /openapi.json among them: the
\* role names of extract_role are the role names the matrix is keyed by.
C27_SystemAdminAdmitted ==
    (probe.fn = "extract_role" /\ probe.done /\ probe.input # NoPayload
        /\ probe.input.system_admin) =>
        /\ DOMAIN probe.output \subseteq
                DOMAIN RuleFor(<<"", "ai4edu_testing">>).roles
        /\ \A i \in 1..Len(endpoint_access_map) :
                endpoint_access_map[i].roles.system_admin =>
                    has_access(endpoint_access_map, probe.output,
                               endpoint_access_map[i].pattern)

C29_RefreshReachable ==
    [][(result'.flip # result.flip /\ result'.op = "generate_token")
            => ~(/\ RowOf(result'.arg) # 0
                 /\ refresh_tokens[RowOf(result'.arg)].expire_at > now)]_vars

(* ------------------------------- C30 ----------------------------------- *)
\* C30 (as claimed): update_agent and delete_agent change an agent only when
\* the claims of the caller give role teacher for the workspace the agent
\* belongs to, or system_admin is true; the workspace_id of the request does
\* not let a teacher of another workspace modify, delete or move the agent.
C30_OnlyTeacherOfAgentsWorkspace ==
    [][\A a \in AgentIds :
        (/\ probe.fn = "agents"
         /\ a \in DOMAIN probe.agents
         /\ probe'.last.op \in {"update_agent", "delete_agent"}
         /\ probe'.agents[a] # probe.agents[a])
            => \/ probe'.last.caller.system_admin
               \/ RoleOfCaller(probe'.last.caller, probe.agents[a].workspace_id)
                    = "teacher"]_vars

====
